---- MODULE Spec2Model ----
(***************************************************************************)
(* Governance-gated access and storage layer of deepadata-edm-mcp-server:  *)
(* the governance engine (security/governance.ts), the volatile store      *)
(* (storage/memory.ts, storage/base.ts), the resource providers            *)
(* (resources/edm.ts, resources/ddna.ts) and the request handlers of       *)
(* createServer (server.ts).                                               *)
(***************************************************************************)
EXTENDS Integers, Sequences, FiniteSets, TLC

VARIABLES
    artifact,     \* governance call: the artifact argument
    context,      \* governance call: the AuthContext | null argument
    purpose,      \* governance call: the purpose argument
    now,          \* the wall clock, new Date() / Date.now(), in milliseconds
    result,       \* the value the last call returned
    objs,         \* the object heap: objs[ref] is the object at reference ref
    store,        \* MemoryArtifactStorage.store: the Map, in insertion order
    envStore,     \* MemoryEnvelopeStorage.store: the Map, in insertion order
    currentAuthContext,  \* createServer: the slot getAuthContext reads
    req,          \* the requests in flight: position and locals of each
    files         \* FileSystemArtifactStorage: the files of basePath/artifacts

govVars == <<artifact, context, purpose, result>>
memVars == <<objs, store>>
srvVars == <<envStore, currentAuthContext, req, files>>
vars == <<artifact, context, purpose, now, result, objs, store,
          envStore, currentAuthContext, req, files>>

-----------------------------------------------------------------------------
(* Bounds *)

MaxTime == 2          \* the clock ranges over 0..MaxTime days
MaxObjects == 3       \* live objects on the heap

-----------------------------------------------------------------------------
(* Values *)

\* a string-typed property that is undefined
Absent == "absent"
\* an undefined date string / number / object / array property, and null
NoDate == [none |-> TRUE]
NoNum == [none |-> TRUE]
NoRetention == [none |-> TRUE]
NoList == [none |-> TRUE]
NoContext == [none |-> TRUE]
NoResult == [op |-> "none"]

\* a date string that Date parses to the instant t, and one it cannot parse
IsoDate(t) == [iso |-> t]
BadDate == [bad |-> TRUE]
Num(n) == [n |-> n]
List(s) == [items |-> s]

DayMs == 86400000
Times == {k * DayMs : k \in 0..MaxTime}

\* new Date(s): the parsed instant, or the Invalid Date (time value NaN)
NewDate(s) ==
    IF "iso" \in DOMAIN s THEN [valid |-> TRUE, t |-> s.iso]
    ELSE [valid |-> FALSE, t |-> 0]
\* new Date(ms) of a number that may be NaN
DateOfTime(d, plus) == [valid |-> d.valid, t |-> IF d.valid THEN d.t + plus ELSE 0]
\* a < b on Dates: any comparison with NaN is false
DateLess(a, b) == a.valid /\ b.valid /\ a.t < b.t
\* JavaScript truthiness of an optional string / number property
TruthyStr(s) == s # Absent /\ s # ""
TruthyDate(s) == s # NoDate
TruthyNum(x) == x # NoNum /\ x.n # 0

Purposes == {"read", "export", "modify", "delete"}
Visibilities == {"public", "private", "shared"}
Exportabilities == {"allowed", "restricted", "prohibited"}

\* the permission string `artifact:read:${id}` and others of the same shape
Permission(verb, id) == <<"artifact", verb, id>>

MkMeta(created, vis, owner, org) ==
    [created_at |-> created, visibility |-> vis,
     owner_user_id |-> owner, owner_org_id |-> org, tags |-> NoList]
MkGovernance(exp, ret) == [exportability |-> exp, retention |-> ret]
MkRetention(dur, exp) == [duration_days |-> dur, expires_at |-> exp]
MkArtifact(id, meta, gov) ==
    [schema_version |-> "0.4.0", artifact_id |-> id, meta |-> meta,
     content |-> [type |-> "test", data |-> "d0"], governance |-> gov]
MkContext(user, roles, org, perms) ==
    [userId |-> user, roles |-> roles, organizationId |-> org, permissions |-> perms]

-----------------------------------------------------------------------------
(* security/governance.ts *)

canExport(a) == a.governance.exportability = "allowed"

isRestricted(a) == a.governance.exportability = "restricted"

isProhibited(a) == a.governance.exportability = "prohibited"

\* checkVisibility with the organization test made without requiring the
\* artifact to have an owner organization
checkVisibility_orgUnguarded(a, ctx) ==
    LET visibility == a.meta.visibility IN
    IF visibility = "public" THEN TRUE
    ELSE IF ctx = NoContext THEN FALSE
    ELSE IF visibility = "private" THEN a.meta.owner_user_id = ctx.userId
    ELSE IF visibility = "shared" THEN
        IF a.meta.owner_user_id = ctx.userId THEN TRUE
        ELSE IF ctx.organizationId = a.meta.owner_org_id THEN TRUE
        ELSE IF ctx.permissions # NoList
                /\ Permission("read", a.artifact_id) \in ctx.permissions.items THEN TRUE
        ELSE FALSE
    ELSE FALSE

checkVisibility(a, ctx) ==
    LET visibility == a.meta.visibility IN
    IF visibility = "public" THEN TRUE
    ELSE IF ctx = NoContext THEN FALSE
    ELSE IF visibility = "private" THEN a.meta.owner_user_id = ctx.userId
    ELSE IF visibility = "shared" THEN
        IF a.meta.owner_user_id = ctx.userId THEN TRUE
        ELSE IF TruthyStr(a.meta.owner_org_id)
                /\ ctx.organizationId = a.meta.owner_org_id THEN TRUE
        ELSE IF ctx.permissions # NoList
                /\ Permission("read", a.artifact_id) \in ctx.permissions.items THEN TRUE
        ELSE FALSE
    ELSE FALSE

isExpired(a, clock) ==
    LET retention == a.governance.retention IN
    IF retention = NoRetention THEN FALSE
    ELSE IF TruthyDate(retention.expires_at)
        THEN DateLess(NewDate(retention.expires_at), [valid |-> TRUE, t |-> clock])
    ELSE IF TruthyNum(retention.duration_days) /\ TruthyDate(a.meta.created_at)
        THEN LET createdAt == NewDate(a.meta.created_at)
                 expiresAt == DateOfTime(createdAt, retention.duration_days.n * DayMs)
             IN  DateLess(expiresAt, [valid |-> TRUE, t |-> clock])
    ELSE FALSE

Deny(reasons) == [allowed |-> FALSE, reasons |-> reasons]
Allow == [allowed |-> TRUE, reasons |-> <<>>]

\* canAccess with the expiry check made after the admin test, so that an
\* administrative identity skips it
canAccess_adminSkipsExpiry(a, ctx, p, clock) ==
    LET isAdmin == IF ctx = NoContext THEN FALSE ELSE "admin" \in ctx.roles IN
    IF isExpired(a, clock) /\ ~isAdmin THEN Deny(<<"Artifact has expired">>)
    ELSE
    IF p \in {"modify", "delete"} THEN
        IF ctx = NoContext THEN Deny(<<"Authentication required for modification">>)
        ELSE LET isOwner == a.meta.owner_user_id = ctx.userId IN
             IF ~isOwner /\ ~isAdmin THEN Deny(<<"Only owner or admin can modify/delete">>)
             ELSE Allow
    ELSE IF ~isAdmin /\ ~checkVisibility(a, ctx) THEN Deny(<<"Visibility check failed">>)
    ELSE IF p = "export" /\ ~canExport(a) THEN
        IF isProhibited(a) THEN Deny(<<"Artifact export is prohibited">>)
        ELSE IF isRestricted(a) THEN Deny(<<"Artifact export is restricted">>)
        ELSE Deny(<<>>)
    ELSE Allow

\* canAccess with the visibility check made before the modify/delete branch
canAccess_visibilityFirst(a, ctx, p, clock) ==
    IF isExpired(a, clock) THEN Deny(<<"Artifact has expired">>)
    ELSE
    LET isAdmin == IF ctx = NoContext THEN FALSE ELSE "admin" \in ctx.roles IN
    IF ~isAdmin /\ ctx # NoContext /\ ~checkVisibility(a, ctx)
        THEN Deny(<<"Visibility check failed">>)
    ELSE IF p \in {"modify", "delete"} THEN
        IF ctx = NoContext THEN Deny(<<"Authentication required for modification">>)
        ELSE LET isOwner == a.meta.owner_user_id = ctx.userId IN
             IF ~isOwner /\ ~isAdmin THEN Deny(<<"Only owner or admin can modify/delete">>)
             ELSE Allow
    ELSE IF ~isAdmin /\ ~checkVisibility(a, ctx) THEN Deny(<<"Visibility check failed">>)
    ELSE IF p = "export" /\ ~canExport(a) THEN
        IF isProhibited(a) THEN Deny(<<"Artifact export is prohibited">>)
        ELSE IF isRestricted(a) THEN Deny(<<"Artifact export is restricted">>)
        ELSE Deny(<<>>)
    ELSE Allow

\* canAccess with an administrative identity exempt from the export check
canAccess_adminExports(a, ctx, p, clock) ==
    IF isExpired(a, clock) THEN Deny(<<"Artifact has expired">>)
    ELSE
    LET isAdmin == IF ctx = NoContext THEN FALSE ELSE "admin" \in ctx.roles IN
    IF p \in {"modify", "delete"} THEN
        IF ctx = NoContext THEN Deny(<<"Authentication required for modification">>)
        ELSE LET isOwner == a.meta.owner_user_id = ctx.userId IN
             IF ~isOwner /\ ~isAdmin THEN Deny(<<"Only owner or admin can modify/delete">>)
             ELSE Allow
    ELSE IF ~isAdmin /\ ~checkVisibility(a, ctx) THEN Deny(<<"Visibility check failed">>)
    ELSE IF p = "export" /\ ~canExport(a) /\ ~isAdmin THEN
        IF isProhibited(a) THEN Deny(<<"Artifact export is prohibited">>)
        ELSE IF isRestricted(a) THEN Deny(<<"Artifact export is restricted">>)
        ELSE Deny(<<>>)
    ELSE Allow

canAccess(a, ctx, p, clock) ==
    IF isExpired(a, clock) THEN Deny(<<"Artifact has expired">>)
    ELSE
    LET isAdmin == IF ctx = NoContext THEN FALSE ELSE "admin" \in ctx.roles IN
    IF p \in {"modify", "delete"} THEN
        IF ctx = NoContext THEN Deny(<<"Authentication required for modification">>)
        ELSE LET isOwner == a.meta.owner_user_id = ctx.userId IN
             IF ~isOwner /\ ~isAdmin THEN Deny(<<"Only owner or admin can modify/delete">>)
             ELSE Allow
    ELSE IF ~isAdmin /\ ~checkVisibility(a, ctx) THEN Deny(<<"Visibility check failed">>)
    ELSE IF p = "export" /\ ~canExport(a) THEN
        IF isProhibited(a) THEN Deny(<<"Artifact export is prohibited">>)
        ELSE IF isRestricted(a) THEN Deny(<<"Artifact export is restricted">>)
        ELSE Deny(<<>>)
    ELSE Allow

\* { ...defaults, ...supplied }: a property of the object literal is kept
\* unless the spread object carries that property
SpreadStr(default, supplied) == IF supplied # Absent THEN supplied ELSE default
SpreadDate(default, supplied) == IF supplied # NoDate THEN supplied ELSE default

NoMeta == [none |-> TRUE]
NoGovernance == [none |-> TRUE]

\* applyDefaultGovernance with the defaults spread after the supplied meta
applyDefaultGovernance_defaultsLast(x, clock) ==
    [x EXCEPT
        !.governance =
            IF x.governance = NoGovernance
                THEN MkGovernance("restricted", NoRetention)
                ELSE [x.governance EXCEPT
                        !.exportability = SpreadStr("restricted", @)],
        !.meta =
            IF x.meta = NoMeta
                THEN MkMeta(IsoDate(clock), "private", Absent, Absent)
                ELSE [x.meta EXCEPT
                        !.visibility = "private",
                        !.created_at = IsoDate(clock)]]

applyDefaultGovernance(x, clock) ==
    [x EXCEPT
        !.governance =
            IF x.governance = NoGovernance
                THEN MkGovernance("restricted", NoRetention)
                ELSE [x.governance EXCEPT
                        !.exportability = SpreadStr("restricted", @)],
        !.meta =
            IF x.meta = NoMeta
                THEN MkMeta(IsoDate(clock), "private", Absent, Absent)
                ELSE [x.meta EXCEPT
                        !.visibility = SpreadStr("private", @),
                        !.created_at = SpreadDate(IsoDate(clock), @)]]

-----------------------------------------------------------------------------
(* JSON.parse(JSON.stringify(x)) *)

\* the value each property of an object has when the property is missing
MissingRetention == [duration_days |-> NoNum, expires_at |-> NoDate]
MissingMeta ==
    [created_at |-> NoDate, visibility |-> Absent, owner_user_id |-> Absent,
     owner_org_id |-> Absent, tags |-> NoList]
MissingGovernance == [exportability |-> Absent, retention |-> NoRetention]
MissingContent == [type |-> Absent, data |-> Absent]
MissingArtifact ==
    [schema_version |-> Absent, artifact_id |-> Absent, meta |-> NoMeta,
     content |-> [none |-> TRUE], governance |-> NoGovernance]

\* the JSON text of an object: its properties that have a value, by name
JsonObject(r, missing) == [k \in {j \in DOMAIN r : r[j] # missing[j]} |-> r[k]]
\* the object a JSON text denotes: a property the text lacks is undefined
ParseObject(text, missing) ==
    [k \in DOMAIN missing |-> IF k \in DOMAIN text THEN text[k] ELSE missing[k]]

JsonStringify(a) ==
    LET gov == IF a.governance = NoGovernance THEN NoGovernance
               ELSE [a.governance EXCEPT
                        !.retention = IF @ = NoRetention THEN NoRetention
                                      ELSE JsonObject(@, MissingRetention)]
        nested == [a EXCEPT
                    !.meta = IF @ = NoMeta THEN NoMeta ELSE JsonObject(@, MissingMeta),
                    !.content = JsonObject(@, MissingContent),
                    !.governance = IF gov = NoGovernance THEN NoGovernance
                                   ELSE JsonObject(gov, MissingGovernance)]
    IN  JsonObject(nested, MissingArtifact)

JsonParse(text) ==
    LET top == ParseObject(text, MissingArtifact)
        gov == IF top.governance = NoGovernance THEN NoGovernance
               ELSE ParseObject(top.governance, MissingGovernance)
    IN  [top EXCEPT
            !.meta = IF @ = NoMeta THEN NoMeta ELSE ParseObject(@, MissingMeta),
            !.content = ParseObject(@, MissingContent),
            !.governance =
                IF gov = NoGovernance THEN NoGovernance
                ELSE [gov EXCEPT
                        !.retention = IF @ = NoRetention THEN NoRetention
                                      ELSE ParseObject(@, MissingRetention)]]

JsonClone(a) == JsonParse(JsonStringify(a))

-----------------------------------------------------------------------------
(* storage/base.ts, storage/memory.ts: MemoryArtifactStorage *)

NoFilter == [none |-> TRUE]
MkFilter(user, org, vis, tags, limit, offset) ==
    [userId |-> user, organizationId |-> org, visibility |-> vis,
     tags |-> tags, limit |-> limit, offset |-> offset]

\* BaseArtifactStorage.generateId: edm_<timestamp>_<random>
GeneratedIds == {"edm_1", "edm_2"}

\* BaseArtifactStorage.validateArtifact: the error it throws, or "ok"
validateArtifact(a) ==
    IF ~TruthyStr(a.artifact_id) THEN "INVALID_DATA"
    ELSE IF ~TruthyStr(a.schema_version) THEN "INVALID_DATA"
    ELSE IF a.governance = NoGovernance THEN "INVALID_DATA"
    ELSE "ok"

\* The heap holds at most MaxObjects live objects.  A cell is Free or an
\* object with its value; client tells whether the caller holds a reference
\* to it.
Free == [free |-> TRUE]
Refs == 1..MaxObjects
IsObject(heap, ref) == heap[ref] # Free
HasRoom(heap) == \E ref \in Refs : heap[ref] = Free
NewRef(heap) == CHOOSE ref \in Refs :
                    heap[ref] = Free /\ \A r \in Refs : heap[r] = Free => ref <= r
Alloc(heap, value, client) ==
    [heap EXCEPT ![NewRef(heap)] = [val |-> value, client |-> client]]

\* Map.has, Map.get, Map.set, Map.delete, Map.keys
MapHas(m, key) == \E i \in 1..Len(m) : m[i].key = key
MapGet(m, key) == m[CHOOSE i \in 1..Len(m) : m[i].key = key].ref
MapSet(m, key, ref) ==
    IF MapHas(m, key)
        THEN [i \in 1..Len(m) |-> IF m[i].key = key THEN [key |-> key, ref |-> ref]
                                  ELSE m[i]]
        ELSE Append(m, [key |-> key, ref |-> ref])
MapDelete(m, key) ==
    LET keep(e) == e.key # key IN SelectSeq(m, keep)
MapKeys(m) == [i \in 1..Len(m) |-> m[i].key]

\* garbage collection: an object that neither the caller nor the Map refers
\* to is gone
Collect(heap, m) ==
    [ref \in Refs |->
        IF heap[ref] # Free /\ ~heap[ref].client
           /\ ~\E i \in 1..Len(m) : m[i].ref = ref
            THEN Free ELSE heap[ref]]

\* what load(id) returns on the given store and heap, without allocating
LoadValue(m, heap, id) ==
    IF ~MapHas(m, id) THEN [ok |-> FALSE, error |-> "NOT_FOUND"]
    ELSE [ok |-> TRUE, value |-> JsonClone(heap[MapGet(m, id)].val)]

\* the caller builds an artifact object
ClientCreate(inputs) ==
    /\ HasRoom(objs)
    /\ \E v \in inputs :
        /\ objs' = Alloc(objs, v, TRUE)
        /\ result' = [op |-> "create", ref |-> NewRef(objs)]
    /\ UNCHANGED <<store, now>>
    /\ UNCHANGED <<artifact, context, purpose>>
    /\ UNCHANGED srvVars

\* the caller assigns to a property of an object it holds a reference to
ClientMutate ==
    /\ \E ref \in Refs :
        /\ IsObject(objs, ref) /\ objs[ref].client
        /\ objs[ref].val.content.data # "d1"
        /\ objs' = [objs EXCEPT ![ref].val.content.data = "d1"]
        /\ result' = [op |-> "mutate", ref |-> ref]
    /\ UNCHANGED <<store, now>>
    /\ UNCHANGED <<artifact, context, purpose>>
    /\ UNCHANGED srvVars

\* the caller lets go of its reference to an object
ClientDrop ==
    /\ \E ref \in Refs :
        /\ IsObject(objs, ref) /\ objs[ref].client
        /\ objs' = Collect([objs EXCEPT ![ref].client = FALSE], store)
        /\ result' = [op |-> "drop", ref |-> ref]
    /\ UNCHANGED <<store, now>>
    /\ UNCHANGED <<artifact, context, purpose>>
    /\ UNCHANGED srvVars

MemArtifactLoad ==
    /\ HasRoom(objs)
    /\ \E id \in {"a1", "a2", "a3"} \cup GeneratedIds :
        IF ~MapHas(store, id)
            THEN /\ result' = [op |-> "load", id |-> id, ok |-> FALSE,
                               error |-> "NOT_FOUND"]
                 /\ objs' = objs
            ELSE /\ objs' = Alloc(objs, JsonClone(objs[MapGet(store, id)].val), TRUE)
                 /\ result' = [op |-> "load", id |-> id, ok |-> TRUE,
                               ref |-> NewRef(objs)]
    /\ UNCHANGED <<store, now>>
    /\ UNCHANGED <<artifact, context, purpose>>
    /\ UNCHANGED srvVars

\* save that stores the copy before it validates
memSave_storeFirst(m, heap, a, g) ==
    LET withId == IF ~TruthyStr(a.artifact_id) THEN [a EXCEPT !.artifact_id = g]
                  ELSE a
    IN  IF validateArtifact(withId) # "ok"
            THEN [ok |-> FALSE, error |-> validateArtifact(withId),
                  artifact |-> withId,
                  store |-> MapSet(m, withId.artifact_id, NewRef(heap)),
                  objs |-> Alloc(heap, JsonClone(withId), FALSE)]
            ELSE [ok |-> TRUE, id |-> withId.artifact_id, artifact |-> withId,
                  store |-> MapSet(m, withId.artifact_id, NewRef(heap)),
                  objs |-> Alloc(heap, JsonClone(withId), FALSE)]

\* MemoryArtifactStorage.save(a) on the Map m and the heap: the artifact as
\* save leaves it, and either the error thrown or the new Map and heap with
\* the stored copy; g is the id generateId would return
memSave(m, heap, a, g) ==
    LET withId == IF ~TruthyStr(a.artifact_id) THEN [a EXCEPT !.artifact_id = g]
                  ELSE a
    IN  IF validateArtifact(withId) # "ok"
            THEN [ok |-> FALSE, error |-> validateArtifact(withId),
                  artifact |-> withId, store |-> m, objs |-> heap]
            ELSE [ok |-> TRUE, id |-> withId.artifact_id, artifact |-> withId,
                  store |-> MapSet(m, withId.artifact_id, NewRef(heap)),
                  objs |-> Alloc(heap, JsonClone(withId), FALSE)]

\* save that puts the caller's object itself into the Map
MemArtifactSave_noCopy ==
    /\ HasRoom(objs)
    /\ \E ref \in Refs, g \in GeneratedIds :
        /\ IsObject(objs, ref) /\ objs[ref].client
        /\ LET a == IF ~TruthyStr(objs[ref].val.artifact_id)
                        THEN [objs[ref].val EXCEPT !.artifact_id = g]
                        ELSE objs[ref].val
               assigned == [objs EXCEPT ![ref].val = a]
           IN  IF validateArtifact(a) # "ok"
                 THEN /\ objs' = assigned
                      /\ store' = store
                      /\ result' = [op |-> "save", ref |-> ref, ok |-> FALSE,
                                    error |-> validateArtifact(a)]
                 ELSE /\ store' = MapSet(store, a.artifact_id, ref)
                      /\ objs' = Collect(Alloc(assigned, JsonClone(a), FALSE), store')
                      /\ result' = [op |-> "save", ref |-> ref, ok |-> TRUE,
                                    id |-> a.artifact_id]
    /\ UNCHANGED now
    /\ UNCHANGED <<artifact, context, purpose>>
    /\ UNCHANGED srvVars

MemArtifactSave ==
    /\ HasRoom(objs)
    /\ \E ref \in Refs, g \in GeneratedIds :
        /\ IsObject(objs, ref) /\ objs[ref].client
        /\ LET saved == memSave(store, objs, objs[ref].val, g) IN
            /\ store' = saved.store
            /\ objs' = Collect([saved.objs EXCEPT ![ref].val = saved.artifact], store')
            /\ result' = IF saved.ok
                            THEN [op |-> "save", ref |-> ref, ok |-> TRUE,
                                  id |-> saved.id]
                            ELSE [op |-> "save", ref |-> ref, ok |-> FALSE,
                                  error |-> saved.error]
    /\ UNCHANGED now
    /\ UNCHANGED <<artifact, context, purpose>>
    /\ UNCHANGED srvVars

\* delete without the has check: an absent id is deleted in silence
MemArtifactDelete_silent ==
    /\ \E id \in {"a1", "a2", "a3"} \cup GeneratedIds :
        /\ store' = MapDelete(store, id)
        /\ result' = [op |-> "delete", id |-> id, ok |-> TRUE]
    /\ objs' = Collect(objs, store')
    /\ UNCHANGED now
    /\ UNCHANGED <<artifact, context, purpose>>
    /\ UNCHANGED srvVars

MemArtifactDelete ==
    /\ \E id \in {"a1", "a2", "a3"} \cup GeneratedIds :
        IF ~MapHas(store, id)
            THEN /\ result' = [op |-> "delete", id |-> id, ok |-> FALSE,
                               error |-> "NOT_FOUND"]
                 /\ store' = store
            ELSE /\ store' = MapDelete(store, id)
                 /\ result' = [op |-> "delete", id |-> id, ok |-> TRUE]
    /\ objs' = Collect(objs, store')
    /\ UNCHANGED now
    /\ UNCHANGED <<artifact, context, purpose>>
    /\ UNCHANGED srvVars

MemArtifactClear ==
    /\ store # <<>>
    /\ store' = <<>>
    /\ result' = [op |-> "clear"]
    /\ objs' = Collect(objs, store')
    /\ UNCHANGED now
    /\ UNCHANGED <<artifact, context, purpose>>
    /\ UNCHANGED srvVars

\* Array.prototype.slice(from, to) with 0 <= from <= to
Slice(seq, from, to) ==
    SubSeq(seq, from + 1, IF to < Len(seq) THEN to ELSE Len(seq))

\* MemoryArtifactStorage.list(filter): the ids it returns
MemArtifactListIds(m, heap, filter) ==
    LET stored(id) == heap[MapGet(m, id)].val
        byUser(id) == stored(id).meta.owner_user_id = filter.userId
        byOrg(id) == stored(id).meta.owner_org_id = filter.organizationId
        byVisibility(id) == stored(id).meta.visibility = filter.visibility
        artifactTags(id) == IF stored(id).meta.tags = NoList THEN {}
                            ELSE stored(id).meta.tags.items
        byTags(id) == \E t \in filter.tags.items : t \in artifactTags(id)
        ids0 == MapKeys(m)
    IN  IF filter = NoFilter THEN ids0
        ELSE
        LET ids1 == IF TruthyStr(filter.userId) THEN SelectSeq(ids0, byUser) ELSE ids0
            ids2 == IF TruthyStr(filter.organizationId)
                        THEN SelectSeq(ids1, byOrg) ELSE ids1
            ids3 == IF TruthyStr(filter.visibility)
                        THEN SelectSeq(ids2, byVisibility) ELSE ids2
            ids4 == IF filter.tags # NoList /\ filter.tags.items # {}
                        THEN SelectSeq(ids3, byTags) ELSE ids3
        IN  IF TruthyNum(filter.limit)
                THEN LET offset == IF TruthyNum(filter.offset) THEN filter.offset.n
                                   ELSE 0
                     IN  Slice(ids4, offset, offset + filter.limit.n)
                ELSE ids4

MemArtifactList(filters) ==
    /\ \E filter \in filters :
        result' = [op |-> "list", filter |-> filter,
                   ids |-> MemArtifactListIds(store, objs, filter)]
    /\ UNCHANGED <<objs, store, now>>
    /\ UNCHANGED <<artifact, context, purpose>>
    /\ UNCHANGED srvVars

-----------------------------------------------------------------------------
(* storage/memory.ts: MemoryEnvelopeStorage *)

MkSignature(value, signer) == [value |-> value, signer_did |-> signer]
MkEnvelope(a, sig, sealed) == [artifact |-> a, signature |-> sig, sealed_at |-> sealed]

\* JSON.stringify and JSON.parse of an envelope
EnvelopeStringify(e) == [e EXCEPT !.artifact = JsonStringify(@)]
EnvelopeParse(text) == [text EXCEPT !.artifact = JsonParse(@)]
EnvelopeClone(e) == EnvelopeParse(EnvelopeStringify(e))

\* the Map of MemoryEnvelopeStorage: entries [key, val] in insertion order
EnvHas(m, key) == \E i \in 1..Len(m) : m[i].key = key
EnvGet(m, key) == m[CHOOSE i \in 1..Len(m) : m[i].key = key].val
EnvKeys(m) == [i \in 1..Len(m) |-> m[i].key]

\* MemoryEnvelopeStorage.load
MemEnvelopeLoad(m, id) ==
    IF ~EnvHas(m, id) THEN [ok |-> FALSE, error |-> "NOT_FOUND"]
    ELSE [ok |-> TRUE, value |-> EnvelopeClone(EnvGet(m, id))]

-----------------------------------------------------------------------------
(* resources/edm.ts, server.ts: the resource providers and request handlers *)

\* a URI is the prefix it starts with and the rest of the string
EDM_URI_PREFIX == "edm://artifact/"
DDNA_URI_PREFIX == "ddna://envelope/"
Uri(prefix, rest) == [prefix |-> prefix, rest |-> rest]
parseEdmUri(uri) ==
    IF uri.prefix # EDM_URI_PREFIX THEN Absent
    ELSE IF uri.rest = "" THEN Absent ELSE uri.rest
parseDdnaUri(uri) ==
    IF uri.prefix # DDNA_URI_PREFIX THEN Absent
    ELSE IF uri.rest = "" THEN Absent ELSE uri.rest
buildEdmUri(id) == Uri(EDM_URI_PREFIX, id)
buildDdnaUri(id) == Uri(DDNA_URI_PREFIX, id)

canAccessEnvelope(e, ctx, p, clock) == canAccess(e.artifact, ctx, p, clock)

\* defaultVerifier
defaultVerifier(e) ==
    IF ~TruthyStr(e.signature.value) THEN [valid |-> FALSE, error |-> "Missing signature"]
    ELSE IF ~TruthyStr(e.signature.signer_did)
        THEN [valid |-> FALSE, error |-> "Missing signer DID"]
    ELSE [valid |-> TRUE]

\* the read handler's catch block: the McpError code for a provider error
McpCode(error) ==
    IF error \in {"NOT_FOUND", "ACCESS_DENIED", "INVALID_SIGNATURE", "UNKNOWN_URI"}
        THEN "InvalidRequest"
        ELSE "InternalError"

Failed(error) == [ok |-> FALSE, error |-> error, mcp |-> McpCode(error)]
Running == [running |-> TRUE]
NoEntity == [none |-> TRUE]

\* a request the transport has handed to its handler: auth(request) has been
\* called and resolves to identity; the handler is suspended at its first await
MkRequest(kind, uri, args, identity) ==
    [kind |-> kind, uri |-> uri, args |-> args, identity |-> identity,
     pc |-> "auth", authContext |-> NoContext, entity |-> NoEntity,
     verification |-> [none |-> TRUE], todo |-> <<>>, out |-> <<>>,
     outcome |-> Running, trace |-> <<>>, used |-> {}]

Finish(r, outcome, trace, used) ==
    [req EXCEPT ![r].pc = "done", ![r].outcome = outcome,
                ![r].trace = req[r].trace \o trace,
                ![r].used = req[r].used \cup used]

\* every server step leaves the governance-call variables alone
SrvFrame == UNCHANGED <<artifact, context, purpose, now, result, files>>

\* ReadResource handler: the await of auth(request) resumes, the identity is
\* assigned to the slot, and the provider's read runs to its first await,
\* which is the one on storage.load
ReadAuthResume(r) ==
    /\ req[r].kind = "read" /\ req[r].pc = "auth"
    /\ currentAuthContext' = req[r].identity
    /\ LET uri == req[r].uri IN
        IF uri.prefix = EDM_URI_PREFIX
            THEN IF ~TruthyStr(parseEdmUri(uri))
                    THEN req' = Finish(r, Failed("INVALID_URI"), <<"parse">>, {})
                 ELSE LET loaded == LoadValue(store, objs, parseEdmUri(uri)) IN
                    IF ~loaded.ok
                        THEN req' = Finish(r, Failed("NOT_FOUND"), <<"parse", "load">>, {})
                        ELSE req' = [req EXCEPT ![r].pc = "edmLoaded",
                                                ![r].entity = loaded.value,
                                                ![r].trace = <<"parse", "load">>]
        ELSE IF uri.prefix = DDNA_URI_PREFIX
            THEN IF ~TruthyStr(parseDdnaUri(uri))
                    THEN req' = Finish(r, Failed("INVALID_URI"), <<"parse">>, {})
                 ELSE LET loaded == MemEnvelopeLoad(envStore, parseDdnaUri(uri)) IN
                    IF ~loaded.ok
                        THEN req' = Finish(r, Failed("NOT_FOUND"), <<"parse", "load">>, {})
                        ELSE req' = [req EXCEPT ![r].pc = "ddnaLoaded",
                                                ![r].entity = loaded.value,
                                                ![r].trace = <<"parse", "load">>]
        ELSE req' = Finish(r, Failed("UNKNOWN_URI"), <<>>, {})
    /\ UNCHANGED <<objs, store, envStore>>
    /\ SrvFrame

\* EdmResourceProvider.read after the await on storage.load
EdmReadLoaded(r) ==
    /\ req[r].pc = "edmLoaded"
    /\ LET authContext == currentAuthContext
           accessCheck == canAccess(req[r].entity, authContext, "export", now)
       IN  req' = IF ~accessCheck.allowed
                    THEN Finish(r, Failed("ACCESS_DENIED"), <<"access">>, {authContext})
                    ELSE Finish(r, [ok |-> TRUE, uri |-> req[r].uri,
                                    text |-> JsonStringify(req[r].entity)],
                                <<"access">>, {authContext})
    /\ UNCHANGED <<objs, store, envStore, currentAuthContext>>
    /\ SrvFrame

\* DdnaResourceProvider.read after the await on storage.load: the verifier
\* is called and awaited
DdnaReadLoaded(r) ==
    /\ req[r].pc = "ddnaLoaded"
    /\ req' = [req EXCEPT ![r].pc = "ddnaVerified",
                          ![r].verification = defaultVerifier(req[r].entity),
                          ![r].trace = Append(@, "verify")]
    /\ UNCHANGED <<objs, store, envStore, currentAuthContext>>
    /\ SrvFrame

\* a read that checks access before it looks at the verification
DdnaReadVerified_accessFirst(r) ==
    /\ req[r].pc = "ddnaVerified"
    /\ LET authContext == currentAuthContext
           accessCheck == canAccessEnvelope(req[r].entity, authContext, "export", now)
       IN  req' = IF ~accessCheck.allowed
                    THEN Finish(r, Failed("ACCESS_DENIED"), <<"access">>, {authContext})
                  ELSE IF ~req[r].verification.valid
                    THEN Finish(r, Failed("INVALID_SIGNATURE"), <<"access">>, {authContext})
                  ELSE Finish(r, [ok |-> TRUE, uri |-> req[r].uri,
                                  text |-> EnvelopeStringify(req[r].entity)],
                              <<"access">>, {authContext})
    /\ UNCHANGED <<objs, store, envStore, currentAuthContext>>
    /\ SrvFrame

\* DdnaResourceProvider.read after the await on verifySignature
DdnaReadVerified(r) ==
    /\ req[r].pc = "ddnaVerified"
    /\ IF ~req[r].verification.valid
        THEN req' = Finish(r, Failed("INVALID_SIGNATURE"), <<>>, {})
        ELSE LET authContext == currentAuthContext
                 accessCheck == canAccessEnvelope(req[r].entity, authContext,
                                                  "export", now)
             IN  req' = IF ~accessCheck.allowed
                    THEN Finish(r, Failed("ACCESS_DENIED"), <<"access">>, {authContext})
                    ELSE Finish(r, [ok |-> TRUE, uri |-> req[r].uri,
                                    text |-> EnvelopeStringify(req[r].entity)],
                                <<"access">>, {authContext})
    /\ UNCHANGED <<objs, store, envStore, currentAuthContext>>
    /\ SrvFrame

\* ListResources handler: the await of auth(request) resumes, the identity
\* is assigned to the slot, and EdmResourceProvider.list reads the slot and
\* runs to its await on storage.list
ListAuthResume(r) ==
    /\ req[r].kind = "list" /\ req[r].pc = "auth"
    /\ currentAuthContext' = req[r].identity
    /\ req' = [req EXCEPT ![r].pc = "edmList",
                          ![r].authContext = currentAuthContext',
                          ![r].todo = MapKeys(store)]
    /\ UNCHANGED <<objs, store, envStore>>
    /\ SrvFrame

\* a listing that lets the failure of one load escape the loop
ListEdmStep_abortOnFailure(r) ==
    /\ req[r].pc = "edmList" /\ req[r].todo # <<>>
    /\ LET id == Head(req[r].todo)
           loaded == LoadValue(store, objs, id)
       IN  IF ~loaded.ok
             THEN req' = Finish(r, Failed("STORAGE_ERROR"), <<"loadFailed">>, {})
             ELSE LET accessCheck == canAccess(loaded.value, req[r].authContext,
                                               "read", now)
                  IN  req' = [req EXCEPT
                        ![r].todo = Tail(@),
                        ![r].used = @ \cup {req[r].authContext},
                        ![r].out = IF accessCheck.allowed
                                    THEN Append(@, buildEdmUri(id)) ELSE @]
    /\ UNCHANGED <<objs, store, envStore, currentAuthContext>>
    /\ SrvFrame

\* EdmResourceProvider.list: one turn of the loop over the ids
ListEdmStep(r) ==
    /\ req[r].pc = "edmList" /\ req[r].todo # <<>>
    /\ LET id == Head(req[r].todo)
           loaded == LoadValue(store, objs, id)
       IN  IF ~loaded.ok
             THEN req' = [req EXCEPT ![r].todo = Tail(@),
                                     ![r].trace = Append(@, "loadFailed")]
             ELSE LET accessCheck == canAccess(loaded.value, req[r].authContext,
                                               "read", now)
                  IN  req' = [req EXCEPT
                        ![r].todo = Tail(@),
                        ![r].used = @ \cup {req[r].authContext},
                        ![r].out = IF accessCheck.allowed
                                    THEN Append(@, buildEdmUri(id)) ELSE @]
    /\ UNCHANGED <<objs, store, envStore, currentAuthContext>>
    /\ SrvFrame

\* the handler's await on edmProvider.list() resumes: DdnaResourceProvider.list
\* reads the slot and runs to its await on storage.list
ListDdnaStart(r) ==
    /\ req[r].pc = "edmList" /\ req[r].todo = <<>>
    /\ req' = [req EXCEPT ![r].pc = "ddnaList",
                          ![r].authContext = currentAuthContext,
                          ![r].todo = EnvKeys(envStore)]
    /\ UNCHANGED <<objs, store, envStore, currentAuthContext>>
    /\ SrvFrame

\* DdnaResourceProvider.list: one turn of the loop over the ids
ListDdnaStep(r) ==
    /\ req[r].pc = "ddnaList" /\ req[r].todo # <<>>
    /\ LET id == Head(req[r].todo)
           loaded == MemEnvelopeLoad(envStore, id)
       IN  IF ~loaded.ok
             THEN req' = [req EXCEPT ![r].todo = Tail(@),
                                     ![r].trace = Append(@, "loadFailed")]
             ELSE LET accessCheck == canAccessEnvelope(loaded.value,
                                        req[r].authContext, "read", now)
                  IN  req' = [req EXCEPT
                        ![r].todo = Tail(@),
                        ![r].used = @ \cup {req[r].authContext},
                        ![r].out = IF accessCheck.allowed
                                    THEN Append(@, buildDdnaUri(id)) ELSE @]
    /\ UNCHANGED <<objs, store, envStore, currentAuthContext>>
    /\ SrvFrame

\* the handler's await on ddnaProvider.list() resumes and the handler returns
ListDone(r) ==
    /\ req[r].pc = "ddnaList" /\ req[r].todo = <<>>
    /\ req' = Finish(r, [ok |-> TRUE, resources |-> req[r].out], <<>>, {})
    /\ UNCHANGED <<objs, store, envStore, currentAuthContext>>
    /\ SrvFrame

\* defaultExtractor, with g the id it draws
defaultExtractor(text, g, clock) ==
    [MkArtifact(g, MkMeta(IsoDate(clock), "private", Absent, Absent),
                MkGovernance("restricted", NoRetention))
        EXCEPT !.content = [type |-> "extracted", data |-> text]]

\* String.prototype.trim over the texts the model uses
Trim(s) ==
    CASE s \in {" ", "   "} -> ""
      [] s = " text " -> "text"
      [] OTHER -> s

\* the extraction capability the handler was built with: the placeholder, a
\* capability that returns a given artifact, or one that rejects
DefaultExtractFn == [kind |-> "default"]
CustomExtractFn(a) == [kind |-> "custom", artifact |-> a]
FailingExtractFn == [kind |-> "rejects"]
ExtractFnError == [thrown |-> "capability error"]

\* an error that wraps the error it was caused by
FailedBecause(error, cause) ==
    [ok |-> FALSE, error |-> error, mcp |-> McpCode(error), cause |-> cause]

\* execute without the input check
ExtractAuthResume_noInputCheck(r) ==
    /\ req[r].kind = "extract" /\ req[r].pc = "auth"
    /\ currentAuthContext' = req[r].identity
    /\ LET extractFn == req[r].args.extractFn IN
        \E g \in GeneratedIds :
            req' = [req EXCEPT
                      ![r].pc = "extracted",
                      ![r].trace = Append(req[r].trace, "extractFn"),
                      ![r].entity =
                        IF extractFn.kind = "default"
                            THEN defaultExtractor(req[r].args.text, g, now)
                        ELSE IF extractFn.kind = "custom" THEN extractFn.artifact
                        ELSE ExtractFnError]
    /\ UNCHANGED <<objs, store, envStore>>
    /\ SrvFrame

\* CallTool handler, extract_from_content: the await of auth(request)
\* resumes, the identity is assigned to the slot, and ExtractToolHandler.execute
\* runs to its await on extractFn
ExtractAuthResume(r) ==
    /\ req[r].kind = "extract" /\ req[r].pc = "auth"
    /\ currentAuthContext' = req[r].identity
    /\ LET extractFn == req[r].args.extractFn IN
       IF ~TruthyStr(req[r].args.text) \/ Trim(req[r].args.text) = ""
        THEN req' = Finish(r, Failed("INVALID_INPUT"), <<>>, {})
        ELSE \E g \in GeneratedIds :
                req' = [req EXCEPT
                          ![r].pc = "extracted",
                          ![r].trace = Append(req[r].trace, "extractFn"),
                          ![r].entity =
                            IF extractFn.kind = "default"
                                THEN defaultExtractor(req[r].args.text, g, now)
                            ELSE IF extractFn.kind = "custom" THEN extractFn.artifact
                            ELSE ExtractFnError]
    /\ UNCHANGED <<objs, store, envStore>>
    /\ SrvFrame

\* ExtractToolHandler.execute after the await on extractFn: defaults, owner
\* stamp from the slot, save
ExtractResume(r) ==
    /\ req[r].pc = "extracted"
    /\ (req[r].args.save /\ req[r].entity # ExtractFnError) => HasRoom(objs)
    /\ IF req[r].entity = ExtractFnError
        THEN /\ req' = Finish(r, FailedBecause("EXTRACTION_FAILED", ExtractFnError),
                              <<>>, {})
             /\ UNCHANGED <<objs, store>>
        ELSE
       LET defaulted == applyDefaultGovernance(req[r].entity, now)
           authContext == currentAuthContext
           stamped == IF authContext # NoContext
                        THEN [defaulted EXCEPT
                                !.meta.owner_user_id = authContext.userId,
                                !.meta.owner_org_id = authContext.organizationId]
                        ELSE defaulted
       IN  IF req[r].args.save
             THEN \E g \in GeneratedIds :
                    LET saved == memSave(store, objs, stamped, g) IN
                    /\ store' = saved.store
                    /\ objs' = Collect(saved.objs, store')
                    /\ req' = IF saved.ok
                                THEN Finish(r, [ok |-> TRUE, artifact |-> saved.artifact,
                                                savedId |-> saved.id],
                                            <<"save">>, {authContext})
                                ELSE Finish(r, FailedBecause("STORAGE_FAILED",
                                                             saved.error),
                                            <<"save">>, {authContext})
             ELSE /\ req' = Finish(r, [ok |-> TRUE, artifact |-> stamped,
                                       savedId |-> Absent], <<>>, {authContext})
                  /\ UNCHANGED <<objs, store>>
    /\ UNCHANGED <<envStore, currentAuthContext>>
    /\ SrvFrame

\* the governance-call variables of a specification that makes no such call
GovIdle == artifact = [none |-> TRUE] /\ context = NoContext /\ purpose = "read"


\* the heap and the store right after construction
MemEmpty == objs = [ref \in Refs |-> Free] /\ store = <<>>

\* the server with no envelope stored and no request in flight
SrvIdle == envStore = <<>> /\ currentAuthContext = NoContext /\ files = <<>> /\ req = <<>>

-----------------------------------------------------------------------------
(* Specification Spec: one canAccess call on arbitrary arguments *)

AccessRetentions ==
    {NoRetention}
    \cup {MkRetention(d, e) : d \in {NoNum, Num(0), Num(1)},
                              e \in {NoDate, IsoDate(DayMs)}}
    \cup {MkRetention(NoNum, BadDate)}

AccessArtifacts ==
    {MkArtifact("a1", MkMeta(c, v, o, g), MkGovernance(e, r)) :
        c \in {NoDate, IsoDate(0)},
        v \in Visibilities \cup {Absent},
        o \in {Absent, "u1"},
        g \in {Absent, "o1"},
        e \in Exportabilities \cup {Absent, "unknown"},
        r \in AccessRetentions}

AccessContexts ==
    {NoContext}
    \cup {MkContext(u, r, g, p) :
            u \in {"u1", "u2"},
            r \in {{"user"}, {"user", "admin"}},
            g \in {Absent, "o1"},
            p \in {NoList, List({Permission("read", "a1")})}}

Init ==
    /\ artifact \in AccessArtifacts
    /\ context \in AccessContexts
    /\ purpose \in Purposes
    /\ now \in Times
    /\ result = NoResult
    /\ MemEmpty
    /\ SrvIdle

CallCanAccess ==
    /\ result = NoResult
    /\ result' = [op |-> "canAccess", value |-> canAccess(artifact, context, purpose, now)]
    /\ UNCHANGED <<artifact, context, purpose, now>>
    /\ UNCHANGED memVars
    /\ UNCHANGED srvVars

Next == CallCanAccess

Spec == Init /\ [][Next]_vars

-----------------------------------------------------------------------------
(* Properties of canAccess, checked under Spec *)

Called == result.op = "canAccess"
IsOwner == context # NoContext /\ context.userId = artifact.meta.owner_user_id
IsAdmin == context # NoContext /\ "admin" \in context.roles

C4_ModifyDeleteOwnership ==
    (Called /\ ~isExpired(artifact, now) /\ purpose \in {"modify", "delete"})
        => /\ IsOwner => result.value.allowed
           /\ (context # NoContext /\ ~IsOwner /\ ~IsAdmin) => ~result.value.allowed
           /\ context = NoContext
                => result.value = Deny(<<"Authentication required for modification">>)
           /\ \A v \in Visibilities \cup {Absent} :
              \A e \in Exportabilities \cup {Absent, "unknown"} :
                 canAccess([artifact EXCEPT !.meta.visibility = v,
                                            !.governance.exportability = e],
                           context, purpose, now) = result.value

C4_Witness ==
    /\ Called /\ ~isExpired(artifact, now) /\ purpose = "modify"
    /\ IsOwner /\ ~IsAdmin
    /\ artifact.meta.visibility = Absent
    /\ artifact.governance.exportability = "prohibited"
    /\ result.value.allowed

\* C5: the decision returned by canAccess has an empty reasons list if and
\* only if it is allowed; every denial carries a reason.
C5_ReasonsEmptyIffAllowed ==
    Called => ((result.value.reasons = <<>>) <=> result.value.allowed)

-----------------------------------------------------------------------------
(* Specification SpecStore: a caller creating, saving, loading and      *)
(* mutating artifacts of the volatile store                              *)

StoreInputs ==
    {[MkArtifact(i, MkMeta(IsoDate(0), "private", "u1", Absent),
                 MkGovernance("allowed", NoRetention))
        EXCEPT !.schema_version = s] :
        i \in {Absent, "a1"}, s \in {"0.4.0"}}

InitStore ==
    /\ GovIdle
    /\ now = 0
    /\ result = NoResult
    /\ MemEmpty
    /\ SrvIdle

NextStore ==
    \/ ClientCreate(StoreInputs)
    \/ ClientMutate
    \/ ClientDrop
    \/ MemArtifactSave
    \/ MemArtifactLoad
    \/ MemArtifactDelete
    \/ MemArtifactClear

SpecStore == InitStore /\ [][NextStore]_vars

AllIds == {"a1", "a2", "a3"} \cup GeneratedIds

\* C8: in the volatile store a load that follows save(e) returns a value equal
\* to e as it was when save returned, and the stored value is not aliased: a
\* later assignment to the object passed to save, or to an object a load
\* returned, changes what no load returns.
C8_RoundTripNoAlias ==
    [][ /\ (result'.op = "save" /\ result'.ok)
            => LoadValue(store', objs', result'.id)
                  = [ok |-> TRUE, value |-> objs'[result'.ref].val]
        /\ (result.op = "save" /\ result.ok
              /\ result'.op = "load" /\ result'.id = result.id)
            => /\ result'.ok
               /\ objs'[result'.ref].val = objs[result.ref].val
        /\ result'.op = "mutate"
            => \A id \in AllIds :
                  LoadValue(store', objs', id) = LoadValue(store, objs, id)
      ]_vars

C8_Witness ==
    /\ result.op = "load" /\ result.ok
    /\ \E ref \in Refs :
        /\ ref # result.ref
        /\ IsObject(objs, ref) /\ objs[ref].client
        /\ objs[ref].val.artifact_id = result.id
        /\ objs[ref].val.content.data = "d1"
    /\ objs[result.ref].val.content.data = "d0"

-----------------------------------------------------------------------------
(* Specification SpecList: artifacts saved to and deleted from the       *)
(* volatile store, and list called with a filter                         *)

ListInputs ==
    { [MkArtifact("a1", MkMeta(IsoDate(0), "public", "u1", "o1"),
                  MkGovernance("allowed", NoRetention))
         EXCEPT !.meta.tags = List({"t1"})],
      [MkArtifact("a2", MkMeta(IsoDate(0), "private", "u2", "o1"),
                  MkGovernance("allowed", NoRetention))
         EXCEPT !.meta.tags = List({"t2", "t3"})],
      MkArtifact("a3", MkMeta(IsoDate(0), "public", "u1", Absent),
                 MkGovernance("restricted", NoRetention)) }

ListFilters ==
    {NoFilter}
    \cup {MkFilter(u, g, v, t, l, o) :
            u \in {Absent, "u1"},
            g \in {Absent, "o1"},
            v \in {Absent, "public"},
            t \in {NoList, List({"t1", "t3"})},
            l \in {NoNum, Num(1)},
            o \in {NoNum, Num(1)}}

InitList ==
    /\ GovIdle
    /\ now = 0
    /\ result = NoResult
    /\ MemEmpty
    /\ SrvIdle

NextList ==
    \/ ClientCreate(ListInputs)
    \/ ClientDrop
    \/ MemArtifactSave
    \/ MemArtifactDelete
    \/ MemArtifactList(ListFilters)

SpecList == InitList /\ [][NextList]_vars

\* the list the filter describes: the stored ids, in insertion order, that
\* match every supplied criterion, without the first offset of them, and at
\* most limit of the rest
FilteredIds(m, heap, f) ==
    LET stored(id) == heap[MapGet(m, id)].val
        tagsOf(id) == IF stored(id).meta.tags = NoList THEN {}
                      ELSE stored(id).meta.tags.items
        matches(id) ==
            /\ f.userId # Absent => stored(id).meta.owner_user_id = f.userId
            /\ f.organizationId # Absent
                  => stored(id).meta.owner_org_id = f.organizationId
            /\ f.visibility # Absent => stored(id).meta.visibility = f.visibility
            /\ f.tags # NoList => \E t \in f.tags.items : t \in tagsOf(id)
    IN  IF f = NoFilter THEN MapKeys(m)
        ELSE
        LET matched == SelectSeq(MapKeys(m), matches)
            offset == IF f.offset = NoNum THEN 0 ELSE f.offset.n
            rest == SubSeq(matched, offset + 1, Len(matched))
        IN  IF f.limit = NoNum THEN rest
            ELSE SubSeq(rest, 1, IF f.limit.n < Len(rest) THEN f.limit.n ELSE Len(rest))

\* C9: list(filter) returns, in insertion order, exactly the stored ids that
\* match every supplied criterion, with the first offset matches dropped and
\* at most limit matches kept.
C9_ListMatchesFilter ==
    result.op = "list" => result.ids = FilteredIds(store, objs, result.filter)

\* the same, for the filters that give a limit or give no offset
C9_ListWithLimit ==
    (result.op = "list" /\ result.filter # NoFilter
        /\ (result.filter.limit # NoNum \/ result.filter.offset = NoNum))
        => result.ids = FilteredIds(store, objs, result.filter)

-----------------------------------------------------------------------------
(* Specification SpecRead: one read-resource request against a server that
   holds one artifact and one envelope sealed from it *)

\* BaseEnvelopeStorage.generateId at the instant clock
generateEnvelopeId(e, clock) ==
    "ddna_" \o e.artifact.artifact_id \o "_" \o ToString(clock)

ReadArtifacts ==
    {MkArtifact("a1", MkMeta(IsoDate(0), v, o, g), MkGovernance(e, r)) :
        v \in Visibilities,
        o \in {Absent, "u1"},
        g \in {Absent, "o1"},
        e \in Exportabilities \cup {"unknown"},
        r \in {NoRetention, MkRetention(NoNum, IsoDate(DayMs)),
               MkRetention(Num(1), NoDate)}}

ReadSignatures == {MkSignature(v, "did:key:s1") : v \in {"sig", ""}}

ReadUris ==
    {Uri(EDM_URI_PREFIX, i) : i \in {"a1", "a2", ""}}
    \cup {Uri(DDNA_URI_PREFIX, i) : i \in {"ddna_a1_0", "ddna_a2_0", ""}}
    \cup {Uri("file://", "a1")}

InitRead ==
    /\ GovIdle
    /\ now \in Times
    /\ result = NoResult
    /\ currentAuthContext = NoContext /\ files = <<>>
    /\ \E a \in ReadArtifacts, sig \in ReadSignatures :
        /\ objs = Alloc([ref \in Refs |-> Free], a, FALSE)
        /\ store = MapSet(<<>>, a.artifact_id, 1)
        /\ LET e == MkEnvelope(a, sig, IsoDate(0)) IN
            envStore = <<[key |-> generateEnvelopeId(e, 0), val |-> e]>>
    /\ \E uri \in ReadUris, identity \in AccessContexts :
        req = <<MkRequest("read", uri, [none |-> TRUE], identity)>>

NextRead ==
    \/ ReadAuthResume(1)
    \/ EdmReadLoaded(1)
    \/ DdnaReadLoaded(1)
    \/ DdnaReadVerified(1)

SpecRead == InitRead /\ [][NextRead]_vars

\* the artifact the store holds under id
Stored(id) == objs[MapGet(store, id)].val

\* C3: an artifact whose exportability is prohibited is denied export for
\* every identity (none, owner, organization member, admin), and a finished
\* read of its address has failed with ACCESS_DENIED and released no content
C3_ProhibitedNeverExported ==
    \A r \in DOMAIN req :
        (/\ TruthyStr(parseEdmUri(req[r].uri))
         /\ MapHas(store, parseEdmUri(req[r].uri))
         /\ Stored(parseEdmUri(req[r].uri)).governance.exportability = "prohibited")
        => /\ \A ctx \in AccessContexts :
                ~canAccess(Stored(parseEdmUri(req[r].uri)), ctx, "export", now).allowed
           /\ req[r].pc = "done" => req[r].outcome = Failed("ACCESS_DENIED")

\* an administrator who owns a public, unexpired, prohibited artifact has
\* read its address and was denied
C3_Witness ==
    \E r \in DOMAIN req :
        /\ req[r].pc = "done"
        /\ req[r].uri = Uri(EDM_URI_PREFIX, "a1")
        /\ Stored("a1").governance.exportability = "prohibited"
        /\ Stored("a1").meta.visibility = "public"
        /\ Stored("a1").governance.retention = NoRetention
        /\ req[r].identity # NoContext
        /\ "admin" \in req[r].identity.roles
        /\ req[r].identity.userId = Stored("a1").meta.owner_user_id
        /\ req[r].outcome = Failed("ACCESS_DENIED")

\* the outcome of the first failing step of an envelope read, in the order
\* parse address, load from storage, verify signature, canAccess(export)
FirstFailure(uri, identity) ==
    IF ~TruthyStr(parseDdnaUri(uri)) THEN "INVALID_URI"
    ELSE IF ~EnvHas(envStore, parseDdnaUri(uri)) THEN "NOT_FOUND"
    ELSE IF ~defaultVerifier(EnvGet(envStore, parseDdnaUri(uri))).valid
        THEN "INVALID_SIGNATURE"
    ELSE IF ~canAccess(EnvGet(envStore, parseDdnaUri(uri)).artifact, identity,
                       "export", now).allowed THEN "ACCESS_DENIED"
    ELSE "none"

IsPrefix(p, q) == Len(p) <= Len(q) /\ SubSeq(q, 1, Len(p)) = p

\* C10: an envelope read evaluates parse, load, verify, canAccess(export) in
\* that order and fails with the error of the first failing step; when the
\* verifier rejects the envelope the read fails with INVALID_SIGNATURE and
\* no governance check has been evaluated
C10_StepOrder ==
    \A r \in DOMAIN req :
        (req[r].kind = "read" /\ req[r].uri.prefix = DDNA_URI_PREFIX)
        => /\ IsPrefix(req[r].trace, <<"parse", "load", "verify", "access">>)
           /\ req[r].pc = "done" =>
                /\ FirstFailure(req[r].uri, req[r].identity) = "none"
                    => req[r].outcome.ok
                /\ FirstFailure(req[r].uri, req[r].identity) # "none"
                    => req[r].outcome = Failed(FirstFailure(req[r].uri, req[r].identity))
                /\ FirstFailure(req[r].uri, req[r].identity) = "INVALID_SIGNATURE"
                    => req[r].trace = <<"parse", "load", "verify">> /\ req[r].used = {}

\* an envelope the verifier rejects, whose artifact the caller may not
\* export either, has been read and the read failed with INVALID_SIGNATURE
C10_Witness ==
    \E r \in DOMAIN req :
        /\ req[r].pc = "done"
        /\ req[r].uri = Uri(DDNA_URI_PREFIX, "ddna_a1_0")
        /\ ~defaultVerifier(EnvGet(envStore, "ddna_a1_0")).valid
        /\ ~canAccess(EnvGet(envStore, "ddna_a1_0").artifact, req[r].identity,
                      "export", now).allowed
        /\ req[r].outcome = Failed("INVALID_SIGNATURE")

-----------------------------------------------------------------------------
(* Specification SpecServer: two requests with different identities, handled
   concurrently by the handlers of createServer *)

ServerIdentities ==
    {NoContext,
     MkContext("u1", {"user"}, "o1", NoList),
     MkContext("u2", {"user", "admin"}, Absent, NoList)}

ServerRequests(identity) ==
    {MkRequest("read", Uri(EDM_URI_PREFIX, "a1"), [none |-> TRUE], identity),
     MkRequest("read", Uri(DDNA_URI_PREFIX, "ddna_a1_0"), [none |-> TRUE], identity),
     MkRequest("list", Uri("", ""), [none |-> TRUE], identity)}
    \cup {MkRequest("extract", Uri("", ""),
                     [text |-> t, save |-> sv, extractFn |-> DefaultExtractFn],
                     identity) :
            t \in {"", "text"}, sv \in BOOLEAN}

InitServer ==
    /\ GovIdle
    /\ now \in Times
    /\ result = NoResult
    /\ currentAuthContext = NoContext /\ files = <<>>
    /\ LET a == MkArtifact("a1", MkMeta(IsoDate(0), "private", "u1", "o1"),
                           MkGovernance("allowed", NoRetention))
           e == MkEnvelope(a, MkSignature("sig", "did:key:s1"), IsoDate(0))
       IN  /\ objs = Alloc([ref \in Refs |-> Free], a, FALSE)
           /\ store = MapSet(<<>>, a.artifact_id, 1)
           /\ envStore = <<[key |-> generateEnvelopeId(e, 0), val |-> e]>>
    /\ \E i1 \in ServerIdentities : \E i2 \in ServerIdentities \ {i1} :
        \E r1 \in ServerRequests(i1), r2 \in ServerRequests(i2) :
            req = <<r1, r2>>

NextServer ==
    \/ \E r \in DOMAIN req : ReadAuthResume(r)
    \/ \E r \in DOMAIN req : EdmReadLoaded(r)
    \/ \E r \in DOMAIN req : DdnaReadLoaded(r)
    \/ \E r \in DOMAIN req : DdnaReadVerified(r)
    \/ \E r \in DOMAIN req : ListAuthResume(r)
    \/ \E r \in DOMAIN req : ListEdmStep(r)
    \/ \E r \in DOMAIN req : ListDdnaStart(r)
    \/ \E r \in DOMAIN req : ListDdnaStep(r)
    \/ \E r \in DOMAIN req : ListDone(r)
    \/ \E r \in DOMAIN req : ExtractAuthResume(r)
    \/ \E r \in DOMAIN req : ExtractResume(r)

SpecServer == InitServer /\ [][NextServer]_vars

\* C1: every access decision and every owner stamp made while serving a
\* request uses the identity resolved for that request, never the identity
\* of the other request
C1_OwnIdentity ==
    \A r \in DOMAIN req : \A used \in req[r].used : used = req[r].identity

-----------------------------------------------------------------------------
(* Specification SpecVisibility: one checkVisibility call *)

VisibilityArtifacts ==
    {MkArtifact(i, MkMeta(IsoDate(0), v, o, g), MkGovernance("allowed", NoRetention)) :
        i \in {"a1", "a2"},
        v \in Visibilities \cup {Absent, "unknown"},
        o \in {Absent, "u1", "u2"},
        g \in {Absent, "o1", "o2"}}

VisibilityContexts ==
    {NoContext}
    \cup {MkContext(u, r, g, p) :
            u \in {"u1", "u2"},
            r \in {{"user"}, {"user", "admin"}},
            g \in {Absent, "o1", "o2"},
            p \in {NoList, List({}), List({Permission("read", "a1")}),
                   List({Permission("write", "a1"), Permission("read", "a2")})}}

InitVisibility ==
    /\ artifact \in VisibilityArtifacts
    /\ context \in VisibilityContexts
    /\ purpose = "read"
    /\ now = 0
    /\ result = NoResult
    /\ MemEmpty
    /\ SrvIdle

CallCheckVisibility ==
    /\ result = NoResult
    /\ result' = [op |-> "checkVisibility", value |-> checkVisibility(artifact, context)]
    /\ UNCHANGED <<artifact, context, purpose, now>>
    /\ UNCHANGED memVars
    /\ UNCHANGED srvVars

NextVisibility == CallCheckVisibility

SpecVisibility == InitVisibility /\ [][NextVisibility]_vars

\* C6: checkVisibility is true exactly when the artifact is public, or private
\* and the identity is the owner, or shared and the identity is the owner, a
\* member of the artifact's (present) owner organization, or holds the
\* permission artifact:read:<artifact id>; it is false in every other case,
\* the absent identity on a non-public artifact included.
C6_VisibilityRule ==
    result.op = "checkVisibility" =>
        (result.value <=>
            \/ artifact.meta.visibility = "public"
            \/ /\ artifact.meta.visibility = "private"
               /\ context # NoContext
               /\ context.userId = artifact.meta.owner_user_id
            \/ /\ artifact.meta.visibility = "shared"
               /\ context # NoContext
               /\ \/ context.userId = artifact.meta.owner_user_id
                  \/ /\ artifact.meta.owner_org_id # Absent
                     /\ context.organizationId = artifact.meta.owner_org_id
                  \/ /\ context.permissions # NoList
                     /\ Permission("read", artifact.artifact_id)
                            \in context.permissions.items)

C6_Witness ==
    /\ result.op = "checkVisibility"
    /\ artifact.meta.visibility = "shared"
    /\ artifact.artifact_id = "a2"
    /\ artifact.meta.owner_user_id = "u1"
    /\ artifact.meta.owner_org_id = "o1"
    /\ context # NoContext
    /\ context.userId = "u2"
    /\ context.organizationId = "o2"
    /\ context.permissions # NoList
    /\ Permission("read", "a2") \in context.permissions.items
    /\ result.value

-----------------------------------------------------------------------------
(* Specification SpecDefaults: applyDefaultGovernance applied to a partial *)
(* artifact, and again to its own result at a later time                   *)

PartialArtifacts ==
    {MkArtifact(i, m, g) :
        i \in {Absent, "a1"},
        m \in {NoMeta}
              \cup {MkMeta(c, v, o, Absent) :
                        c \in {NoDate, IsoDate(0), BadDate},
                        v \in Visibilities \cup {Absent},
                        o \in {Absent, "u1"}},
        g \in {NoGovernance}
              \cup {MkGovernance(e, r) :
                        e \in Exportabilities \cup {Absent},
                        r \in {NoRetention, MkRetention(Num(1), NoDate)}}}

InitDefaults ==
    /\ artifact \in PartialArtifacts
    /\ context = NoContext
    /\ purpose = "read"
    /\ now \in Times
    /\ result = NoResult
    /\ MemEmpty
    /\ SrvIdle

\* the clock advances between calls
Tick ==
    /\ now < MaxTime * DayMs
    /\ now' = now + DayMs
    /\ UNCHANGED govVars
    /\ UNCHANGED memVars
    /\ UNCHANGED srvVars

ApplyOnce ==
    /\ result = NoResult
    /\ result' = [op |-> "applyOnce", once |-> applyDefaultGovernance(artifact, now)]
    /\ UNCHANGED <<artifact, context, purpose, now>>
    /\ UNCHANGED memVars
    /\ UNCHANGED srvVars

ApplyTwice ==
    /\ result.op = "applyOnce"
    /\ result' = [op |-> "applyTwice", once |-> result.once,
                  twice |-> applyDefaultGovernance(result.once, now)]
    /\ UNCHANGED <<artifact, context, purpose, now>>
    /\ UNCHANGED memVars
    /\ UNCHANGED srvVars

NextDefaults == ApplyOnce \/ Tick \/ ApplyTwice

SpecDefaults == InitDefaults /\ [][NextDefaults]_vars

SuppliedExportability ==
    IF artifact.governance = NoGovernance THEN Absent
    ELSE artifact.governance.exportability
SuppliedVisibility ==
    IF artifact.meta = NoMeta THEN Absent ELSE artifact.meta.visibility
SuppliedCreatedAt ==
    IF artifact.meta = NoMeta THEN NoDate ELSE artifact.meta.created_at

-----------------------------------------------------------------------------
(* Specification SpecProvider: one read-resource or list-resources request
   against a server that holds two artifacts and the envelopes sealed from
   them; SpecListing: the same with entries deleted from the stores while
   the request is served *)

\* MemoryEnvelopeStorage.delete
MemEnvelopeDelete ==
    /\ \E id \in {"ddna_a1_0", "ddna_a2_0", "ddna_a3_0"} :
        IF ~EnvHas(envStore, id)
            THEN /\ result' = [op |-> "deleteEnvelope", id |-> id, ok |-> FALSE,
                               error |-> "NOT_FOUND"]
                 /\ envStore' = envStore
            ELSE /\ envStore' = LET keep(e) == e.key # id IN SelectSeq(envStore, keep)
                 /\ result' = [op |-> "deleteEnvelope", id |-> id, ok |-> TRUE]
    /\ UNCHANGED <<objs, store, now, currentAuthContext, req, files>>
    /\ UNCHANGED <<artifact, context, purpose>>

ProviderArtifacts(id) ==
    {MkArtifact(id, MkMeta(IsoDate(0), v, "u1", "o1"), MkGovernance(e, r)) :
        v \in {"public", "private"},
        e \in Exportabilities,
        r \in {NoRetention, MkRetention(NoNum, IsoDate(DayMs))}}

ProviderIdentities ==
    {NoContext,
     MkContext("u1", {"user"}, "o1", NoList),
     MkContext("u2", {"user"}, Absent, NoList),
     MkContext("u2", {"user", "admin"}, Absent, NoList)}

ProviderRequests(identity) ==
    {MkRequest("read", Uri(EDM_URI_PREFIX, "a1"), [none |-> TRUE], identity),
     MkRequest("read", Uri(DDNA_URI_PREFIX, "ddna_a1_0"), [none |-> TRUE], identity),
     MkRequest("list", Uri("", ""), [none |-> TRUE], identity)}

InitProvider ==
    /\ GovIdle
    /\ now \in Times
    /\ result = NoResult
    /\ currentAuthContext = NoContext /\ files = <<>>
    /\ \E a1 \in ProviderArtifacts("a1"), a2 \in ProviderArtifacts("a2"),
          s1 \in ReadSignatures, s2 \in ReadSignatures :
        /\ objs = Alloc(Alloc([ref \in Refs |-> Free], a1, FALSE), a2, FALSE)
        /\ store = MapSet(MapSet(<<>>, "a1", 1), "a2", 2)
        /\ LET e1 == MkEnvelope(a1, s1, IsoDate(0))
               e2 == MkEnvelope(a2, s2, IsoDate(0))
           IN  envStore = <<[key |-> generateEnvelopeId(e1, 0), val |-> e1],
                            [key |-> generateEnvelopeId(e2, 0), val |-> e2]>>
    /\ \E identity \in ProviderIdentities :
        \E request \in ProviderRequests(identity) : req = <<request>>

NextProvider ==
    \/ ReadAuthResume(1)
    \/ EdmReadLoaded(1)
    \/ DdnaReadLoaded(1)
    \/ DdnaReadVerified(1)
    \/ ListAuthResume(1)
    \/ ListEdmStep(1)
    \/ ListDdnaStart(1)
    \/ ListDdnaStep(1)
    \/ ListDone(1)

SpecProvider == InitProvider /\ [][NextProvider]_vars

ListingArtifacts(id) ==
    {MkArtifact(id, MkMeta(IsoDate(0), v, "u1", "o1"), MkGovernance("allowed", r)) :
        v \in {"public", "private"},
        r \in {NoRetention, MkRetention(NoNum, IsoDate(DayMs))}}

InitListing ==
    /\ GovIdle
    /\ now \in Times
    /\ result = NoResult
    /\ currentAuthContext = NoContext /\ files = <<>>
    /\ \E a1 \in ListingArtifacts("a1"), a2 \in ListingArtifacts("a2") :
        /\ objs = Alloc(Alloc([ref \in Refs |-> Free], a1, FALSE), a2, FALSE)
        /\ store = MapSet(MapSet(<<>>, "a1", 1), "a2", 2)
        /\ LET e1 == MkEnvelope(a1, MkSignature("sig", "did:key:s1"), IsoDate(0))
               e2 == MkEnvelope(a2, MkSignature("sig", "did:key:s1"), IsoDate(0))
           IN  envStore = <<[key |-> generateEnvelopeId(e1, 0), val |-> e1],
                            [key |-> generateEnvelopeId(e2, 0), val |-> e2]>>
    /\ \E identity \in ProviderIdentities :
        req = <<MkRequest("list", Uri("", ""), [none |-> TRUE], identity)>>

NextListing ==
    \/ ListAuthResume(1)
    \/ ListEdmStep(1)
    \/ ListDdnaStart(1)
    \/ ListDdnaStep(1)
    \/ ListDone(1)
    \/ MemArtifactDelete
    \/ MemEnvelopeDelete

SpecListing == InitListing /\ [][NextListing]_vars

\* the elements of a sequence
Range(seq) == {seq[i] : i \in 1..Len(seq)}

\* C11: an envelope the verifier does not accept never appears in the output
\* of the envelope provider: not in the content a read releases, not in the
\* resources a listing returns
C11_UnverifiableNeverExposed ==
    \A r \in DOMAIN req :
        req[r].pc = "done" /\ req[r].outcome.ok =>
            /\ req[r].kind = "read" /\ req[r].uri.prefix = DDNA_URI_PREFIX
                => defaultVerifier(req[r].entity).valid
            /\ req[r].kind = "list" =>
                \A id \in Range(EnvKeys(envStore)) :
                    buildDdnaUri(id) \in Range(req[r].outcome.resources)
                        => defaultVerifier(EnvGet(envStore, id)).valid

\* the artifact a read request has loaded, bare or inside its envelope
LoadedArtifact(r) ==
    IF req[r].uri.prefix = DDNA_URI_PREFIX THEN req[r].entity.artifact
    ELSE req[r].entity

\* C12: a read releases content only if canAccess(entity, identity, export)
\* allows it; a listing includes an entry if and only if it loaded and
\* canAccess(entity, identity, read) allows it; so an entry with restricted
\* exportability that the caller may read is listed, and its read fails with
\* ACCESS_DENIED
C12_ReadExportsListReads ==
    \A r \in DOMAIN req :
        req[r].pc = "done" =>
            /\ req[r].kind = "read" /\ req[r].outcome.ok
                => canAccess(LoadedArtifact(r), req[r].identity, "export", now).allowed
            /\ req[r].kind = "list" =>
                /\ \A id \in Range(MapKeys(store)) :
                    buildEdmUri(id) \in Range(req[r].outcome.resources)
                        <=> canAccess(Stored(id), req[r].identity, "read", now).allowed
                /\ \A id \in Range(EnvKeys(envStore)) :
                    buildDdnaUri(id) \in Range(req[r].outcome.resources)
                        <=> canAccess(EnvGet(envStore, id).artifact, req[r].identity,
                                      "read", now).allowed
            /\ (/\ req[r].kind = "read"
                /\ req[r].entity # NoEntity
                /\ LoadedArtifact(r).governance.exportability = "restricted"
                /\ canAccess(LoadedArtifact(r), req[r].identity, "read", now).allowed)
                => req[r].outcome = Failed("ACCESS_DENIED")

\* the entries of a listing that are still stored, as the listing orders them
StillStored(resources) ==
    LET stored(uri) ==
            \/ uri.prefix = EDM_URI_PREFIX /\ MapHas(store, uri.rest)
            \/ uri.prefix = DDNA_URI_PREFIX /\ EnvHas(envStore, uri.rest)
    IN  SelectSeq(resources, stored)

\* the stored entries the identity may read, artifacts then envelopes, each
\* in storage order
Readable(identity) ==
    LET artifactOk(id) == canAccess(Stored(id), identity, "read", now).allowed
        envelopeOk(id) ==
            canAccess(EnvGet(envStore, id).artifact, identity, "read", now).allowed
        edm == SelectSeq(MapKeys(store), artifactOk)
        ddna == SelectSeq(EnvKeys(envStore), envelopeOk)
    IN  [i \in 1..Len(edm) |-> buildEdmUri(edm[i])]
        \o [i \in 1..Len(ddna) |-> buildDdnaUri(ddna[i])]

\* C13: a listing never aborts because of one entry: whatever fails to load
\* or is denied for purpose read is skipped, and every other entry is
\* returned, in storage order
C13_ListSkipsNeverAborts ==
    \A r \in DOMAIN req :
        req[r].kind = "list" /\ req[r].pc = "done" =>
            /\ req[r].outcome.ok
            /\ StillStored(req[r].outcome.resources) = Readable(req[r].identity)

\* a listing met an id whose load failed, skipped an entry it was denied,
\* and returned another entry
C13_Witness ==
    \E r \in DOMAIN req :
        /\ req[r].kind = "list" /\ req[r].pc = "done"
        /\ "loadFailed" \in Range(req[r].trace)
        /\ req[r].outcome.ok
        /\ buildEdmUri("a2") \in Range(req[r].outcome.resources)
        /\ MapHas(store, "a1") /\ buildEdmUri("a1") \notin Range(req[r].outcome.resources)

-----------------------------------------------------------------------------
(* tools/seal.ts: hexToKey, defaultSealer, SealToolHandler; storage/base.ts,
   storage/memory.ts: saving an envelope *)

\* validateGovernance
validateGovernance(a) ==
    IF a.governance = NoGovernance
        THEN [valid |-> FALSE, errors |-> <<"Missing governance field">>,
              warnings |-> <<>>]
    ELSE
    LET errors ==
            IF ~TruthyStr(a.governance.exportability)
                THEN <<"Missing exportability setting">>
            ELSE IF a.governance.exportability \notin {"allowed", "restricted", "prohibited"}
                THEN <<"Invalid exportability value">>
            ELSE <<>>
        visibilityWarnings ==
            IF a.meta = NoMeta \/ ~TruthyStr(a.meta.visibility)
                THEN <<"Missing visibility setting, defaulting to private">>
                ELSE <<>>
        retention == a.governance.retention
        retentionWarnings ==
            IF retention # NoRetention /\ TruthyNum(retention.duration_days)
               /\ TruthyDate(retention.expires_at)
                THEN <<"Both duration_days and expires_at set; expires_at takes precedence">>
                ELSE <<>>
    IN  [valid |-> errors = <<>>, errors |-> errors,
         warnings |-> visibilityWarnings \o retentionWarnings]

\* a string of key material is the sequence of its characters
HexDigitValue ==
    ("0" :> 0) @@ ("1" :> 1) @@ ("2" :> 2) @@ ("3" :> 3) @@ ("4" :> 4) @@
    ("5" :> 5) @@ ("6" :> 6) @@ ("7" :> 7) @@ ("8" :> 8) @@ ("9" :> 9) @@
    ("a" :> 10) @@ ("b" :> 11) @@ ("c" :> 12) @@ ("d" :> 13) @@ ("e" :> 14) @@
    ("f" :> 15) @@ ("A" :> 10) @@ ("B" :> 11) @@ ("C" :> 12) @@ ("D" :> 13) @@
    ("E" :> 14) @@ ("F" :> 15)

\* /^[0-9a-fA-F]*$/.test
IsHexString(chars) == \A i \in 1..Len(chars) : chars[i] \in DOMAIN HexDigitValue

\* parseInt(two hex digits, 16)
ParseHexByte(hi, lo) == 16 * HexDigitValue[hi] + HexDigitValue[lo]

\* hexToKey without the test of the length
hexToKey_noLengthCheck(hex) ==
    LET cleanHex == IF Len(hex) >= 2 /\ hex[1] = "0" /\ hex[2] = "x"
                        THEN SubSeq(hex, 3, Len(hex)) ELSE hex
    IN  IF ~IsHexString(cleanHex)
            THEN [ok |-> FALSE, error |-> "INVALID_KEY", message |-> "Invalid hex string"]
        ELSE [ok |-> TRUE,
              bytes |-> [i \in 1..((Len(cleanHex) + 1) \div 2) |->
                            IF 2 * i <= Len(cleanHex)
                                THEN ParseHexByte(cleanHex[2 * i - 1], cleanHex[2 * i])
                                ELSE HexDigitValue[cleanHex[2 * i - 1]]]]

\* hexToKey: the bytes, or the SealError thrown
hexToKey(hex) ==
    LET cleanHex == IF Len(hex) >= 2 /\ hex[1] = "0" /\ hex[2] = "x"
                        THEN SubSeq(hex, 3, Len(hex)) ELSE hex
    IN  IF ~IsHexString(cleanHex)
            THEN [ok |-> FALSE, error |-> "INVALID_KEY", message |-> "Invalid hex string"]
        ELSE IF Len(cleanHex) % 2 # 0
            THEN [ok |-> FALSE, error |-> "INVALID_KEY",
                  message |-> "Hex string must have even length"]
        ELSE [ok |-> TRUE,
              bytes |-> [i \in 1..(Len(cleanHex) \div 2) |->
                            ParseHexByte(cleanHex[2 * i - 1], cleanHex[2 * i])]]

\* did.startsWith('did:'), over the signer ids the model uses
DidStrings == {"did:key:s1", "did:example:123"}
StartsWithDid(did) == did \in DidStrings

\* defaultSealer at the instant clock
defaultSealer(a, privateKey, did, algorithm, clock) ==
    [version |-> "1.0",
     artifact |-> a,
     signature |-> [algorithm |-> IF algorithm = Absent THEN "Ed25519" ELSE algorithm,
                    signer_did |-> did,
                    value |-> "sig_" \o a.artifact_id \o "_" \o ToString(clock)],
     sealed_at |-> IsoDate(clock)]

NoEnvelopePart == [none |-> TRUE]

\* BaseEnvelopeStorage.validateEnvelope: the error it throws, or "ok"
validateEnvelope(e) ==
    IF e.artifact = NoEnvelopePart THEN "INVALID_DATA"
    ELSE IF e.signature = NoEnvelopePart THEN "INVALID_DATA"
    ELSE IF ~TruthyStr(e.signature.signer_did) THEN "INVALID_DATA"
    ELSE "ok"

\* Map.set on the envelope Map
EnvSet(m, key, val) ==
    IF EnvHas(m, key)
        THEN [i \in 1..Len(m) |-> IF m[i].key = key THEN [key |-> key, val |-> val]
                                  ELSE m[i]]
        ELSE Append(m, [key |-> key, val |-> val])

\* MemoryEnvelopeStorage.save at the instant clock
memEnvelopeSave(m, e, clock) ==
    IF validateEnvelope(e) # "ok"
        THEN [ok |-> FALSE, error |-> validateEnvelope(e), store |-> m]
        ELSE [ok |-> TRUE, id |-> generateEnvelopeId(e, clock),
              store |-> EnvSet(m, generateEnvelopeId(e, clock), EnvelopeClone(e))]


NoArtifact == [none |-> TRUE]
NoWarnings == [none |-> TRUE]

\* the signing capability handed to the constructor: the placeholder, a
\* function resolving to a given envelope, a function that rejects
DefaultSealFn == [kind |-> "placeholder"]
CustomSealFn(e) == [kind |-> "returns", envelope |-> e]
FailingSealFn == [kind |-> "rejects"]
SealFnError == [thrown |-> "signing error"]

\* this.sealFn(artifact, privateKeyBytes, did, algorithm) at the instant clock
CallSealFn(sealFn, a, privateKey, did, algorithm, clock) ==
    IF sealFn = DefaultSealFn THEN defaultSealer(a, privateKey, did, algorithm, clock)
    ELSE IF sealFn = FailingSealFn THEN SealFnError
    ELSE sealFn.envelope

\* SealToolHandler.execute without canExport
SealChecks_noExportCheck(args) ==
    IF args.artifact = NoArtifact
        THEN [error |-> "INVALID_INPUT", trace |-> <<"input">>, warnings |-> <<>>]
    ELSE IF ~TruthyStr(args.artifact.artifact_id)
        THEN [error |-> "INVALID_INPUT", trace |-> <<"input">>, warnings |-> <<>>]
    ELSE IF ~validateGovernance(args.artifact).valid
        THEN [error |-> "GOVERNANCE_VIOLATION", trace |-> <<"input", "governance">>,
              warnings |-> <<>>]
    ELSE
    LET warnings == validateGovernance(args.artifact).warnings IN
    IF ~TruthyStr(args.did) \/ ~StartsWithDid(args.did)
        THEN [error |-> "INVALID_INPUT",
              trace |-> <<"input", "governance", "did">>,
              warnings |-> warnings]
    ELSE IF ~hexToKey(args.privateKey).ok
        THEN [error |-> "INVALID_KEY",
              trace |-> <<"input", "governance", "did", "key">>,
              warnings |-> warnings]
    ELSE [error |-> "none",
          trace |-> <<"input", "governance", "did", "key">>,
          warnings |-> warnings]

\* SealToolHandler.execute up to the call of the signing capability: the
\* error of the check that throws, or "none", the checks made, and the
\* warnings collected
SealChecks(args) ==
    IF args.artifact = NoArtifact
        THEN [error |-> "INVALID_INPUT", trace |-> <<"input">>, warnings |-> <<>>]
    ELSE IF ~TruthyStr(args.artifact.artifact_id)
        THEN [error |-> "INVALID_INPUT", trace |-> <<"input">>, warnings |-> <<>>]
    ELSE IF ~validateGovernance(args.artifact).valid
        THEN [error |-> "GOVERNANCE_VIOLATION", trace |-> <<"input", "governance">>,
              warnings |-> <<>>]
    ELSE
    LET warnings == validateGovernance(args.artifact).warnings IN
    IF ~canExport(args.artifact)
        THEN [error |-> "GOVERNANCE_VIOLATION",
              trace |-> <<"input", "governance", "export">>, warnings |-> warnings]
    ELSE IF ~TruthyStr(args.did) \/ ~StartsWithDid(args.did)
        THEN [error |-> "INVALID_INPUT",
              trace |-> <<"input", "governance", "export", "did">>,
              warnings |-> warnings]
    ELSE IF ~hexToKey(args.privateKey).ok
        THEN [error |-> "INVALID_KEY",
              trace |-> <<"input", "governance", "export", "did", "key">>,
              warnings |-> warnings]
    ELSE [error |-> "none",
          trace |-> <<"input", "governance", "export", "did", "key">>,
          warnings |-> warnings]

\* the handler with the signer id looked at before the governance
SealAuthResume_didFirst(r) ==
    /\ req[r].kind = "seal" /\ req[r].pc = "auth"
    /\ currentAuthContext' = req[r].identity
    /\ LET args == req[r].args
           checks == IF /\ args.artifact # NoArtifact
                        /\ TruthyStr(args.artifact.artifact_id)
                        /\ (~TruthyStr(args.did) \/ ~StartsWithDid(args.did))
                        THEN [error |-> "INVALID_INPUT", trace |-> <<"input", "did">>,
                              warnings |-> <<>>]
                        ELSE SealChecks(args)
       IN  IF checks.error # "none"
             THEN req' = Finish(r, Failed(checks.error), checks.trace, {})
             ELSE req' = [req EXCEPT
                    ![r].pc = "sealed",
                    ![r].trace = Append(checks.trace, "sign"),
                    ![r].out = checks.warnings,
                    ![r].entity =
                        [call |-> [artifact |-> args.artifact,
                                   privateKey |-> hexToKey(args.privateKey).bytes,
                                   did |-> args.did, algorithm |-> args.algorithm],
                         envelope |-> CallSealFn(args.sealFn, args.artifact,
                                        hexToKey(args.privateKey).bytes,
                                        args.did, args.algorithm, now)]]
    /\ UNCHANGED <<objs, store, envStore>>
    /\ SrvFrame

\* CallTool handler, seal_artifact: the await of auth(request) resumes, the
\* identity is assigned to the slot, and SealToolHandler.execute runs to its
\* await on sealFn
SealAuthResume(r) ==
    /\ req[r].kind = "seal" /\ req[r].pc = "auth"
    /\ currentAuthContext' = req[r].identity
    /\ LET args == req[r].args
           checks == SealChecks(args)
       IN  IF checks.error # "none"
             THEN req' = Finish(r, Failed(checks.error), checks.trace, {})
             ELSE req' = [req EXCEPT
                    ![r].pc = "sealed",
                    ![r].trace = Append(checks.trace, "sign"),
                    ![r].out = checks.warnings,
                    ![r].entity =
                        [call |-> [artifact |-> args.artifact,
                                   privateKey |-> hexToKey(args.privateKey).bytes,
                                   did |-> args.did, algorithm |-> args.algorithm],
                         envelope |-> CallSealFn(args.sealFn, args.artifact,
                                        hexToKey(args.privateKey).bytes,
                                        args.did, args.algorithm, now)]]
    /\ UNCHANGED <<objs, store, envStore>>
    /\ SrvFrame

\* execute saving the envelope whatever the save flag
SealResume_alwaysSaves(r) ==
    /\ req[r].pc = "sealed"
    /\ LET envelope == req[r].entity.envelope
           warnings == IF Len(req[r].out) > 0 THEN List(req[r].out) ELSE NoWarnings
       IN  IF envelope = SealFnError
             THEN /\ req' = Finish(r, FailedBecause("SIGNING_FAILED", SealFnError),
                                   <<>>, {})
                  /\ envStore' = envStore
           ELSE IF TRUE
             THEN LET saved == memEnvelopeSave(envStore, envelope, now) IN
                  /\ envStore' = saved.store
                  /\ req' = IF saved.ok
                              THEN Finish(r, [ok |-> TRUE, envelope |-> envelope,
                                              savedId |-> saved.id,
                                              warnings |-> warnings],
                                          <<"save">>, {})
                              ELSE Finish(r, FailedBecause("STORAGE_FAILED", saved.error),
                                          <<"save">>, {})
             ELSE /\ req' = Finish(r, [ok |-> TRUE, envelope |-> envelope,
                                       savedId |-> Absent, warnings |-> warnings],
                                   <<>>, {})
                  /\ envStore' = envStore
    /\ UNCHANGED <<objs, store, currentAuthContext>>
    /\ SrvFrame

\* SealToolHandler.execute after the await on sealFn: save, result
SealResume(r) ==
    /\ req[r].pc = "sealed"
    /\ LET envelope == req[r].entity.envelope
           warnings == IF Len(req[r].out) > 0 THEN List(req[r].out) ELSE NoWarnings
       IN  IF envelope = SealFnError
             THEN /\ req' = Finish(r, FailedBecause("SIGNING_FAILED", SealFnError),
                                   <<>>, {})
                  /\ envStore' = envStore
           ELSE IF req[r].args.save
             THEN LET saved == memEnvelopeSave(envStore, envelope, now) IN
                  /\ envStore' = saved.store
                  /\ req' = IF saved.ok
                              THEN Finish(r, [ok |-> TRUE, envelope |-> envelope,
                                              savedId |-> saved.id,
                                              warnings |-> warnings],
                                          <<"save">>, {})
                              ELSE Finish(r, FailedBecause("STORAGE_FAILED", saved.error),
                                          <<"save">>, {})
             ELSE /\ req' = Finish(r, [ok |-> TRUE, envelope |-> envelope,
                                       savedId |-> Absent, warnings |-> warnings],
                                   <<>>, {})
                  /\ envStore' = envStore
    /\ UNCHANGED <<objs, store, currentAuthContext>>
    /\ SrvFrame

-----------------------------------------------------------------------------
(* Specification SpecSeal: one seal_artifact call against a server whose
   envelope store is empty or holds one envelope *)

MaxKeyLen == 4
KeyChars == {"0", "1", "2", "F", "x", "g"}
Keys == UNION {[1..n -> KeyChars] : n \in 0..MaxKeyLen}

SealArtifacts ==
    {NoArtifact}
    \cup {MkArtifact(id, m, g) :
            id \in {"a1", ""},
            m \in {NoMeta, MkMeta(IsoDate(0), "public", "u1", Absent)},
            g \in {NoGovernance}
                  \cup {MkGovernance(e, r) :
                          e \in Exportabilities \cup {Absent, "unknown"},
                          r \in {NoRetention, MkRetention(Num(1), IsoDate(DayMs))}}}

MkSealArgs(a, key, did, algorithm, save) ==
    [artifact |-> a, privateKey |-> key, did |-> did, algorithm |-> algorithm,
     save |-> save, sealFn |-> DefaultSealFn]

SealArgs ==
    {MkSealArgs(a, key, did, alg, save) :
        a \in SealArtifacts,
        key \in {<<"0", "1", "0", "2">>, <<"0", "1", "0">>, <<"0", "g">>},
        did \in {"did:key:s1", "invalid-did", Absent},
        alg \in {Absent, "ES256"},
        save \in BOOLEAN}
    \cup {MkSealArgs(MkArtifact("a1", MkMeta(IsoDate(0), "public", "u1", Absent),
                                MkGovernance("allowed", NoRetention)),
                     key, "did:example:123", Absent, save) :
            key \in Keys, save \in BOOLEAN}

InitSeal ==
    /\ GovIdle
    /\ MemEmpty
    /\ now \in Times
    /\ result = NoResult
    /\ currentAuthContext = NoContext /\ files = <<>>
    /\ LET a == MkArtifact("a1", MkMeta(IsoDate(0), "private", "u1", "o1"),
                           MkGovernance("allowed", NoRetention))
           e == MkEnvelope(a, MkSignature("sig", "did:key:s1"), IsoDate(0))
       IN  envStore \in {<<>>, <<[key |-> generateEnvelopeId(e, 0), val |-> e]>>}
    /\ \E args \in SealArgs :
        req = <<MkRequest("seal", Uri("", ""), args, NoContext)>>

NextSeal ==
    \/ SealAuthResume(1)
    \/ SealResume(1)

SpecSeal == InitSeal /\ [][NextSeal]_vars

\* governance fails validation, or exportability is not allowed
NotSealable(a) == ~validateGovernance(a).valid \/ a.governance.exportability # "allowed"

\* every other argument of the call is acceptable
OtherArgsFine(args) ==
    /\ args.did \in DidStrings
    /\ hexToKey(args.privateKey).ok

WithoutPrefix(key) ==
    IF Len(key) >= 2 /\ SubSeq(key, 1, 2) = <<"0", "x">> THEN SubSeq(key, 3, Len(key))
    ELSE key

HexDigits ==
    {"0", "1", "2", "3", "4", "5", "6", "7", "8", "9",
     "a", "b", "c", "d", "e", "f", "A", "B", "C", "D", "E", "F"}

\* an odd number of digits, or a character that is no hexadecimal digit
Malformed(key) ==
    \/ Len(WithoutPrefix(key)) % 2 = 1
    \/ \E i \in 1..Len(WithoutPrefix(key)) : WithoutPrefix(key)[i] \notin HexDigits

\* C15: key material is decoded before signing: a malformed key never
\* reaches the signing capability and the call that gets as far as decoding
\* it fails with INVALID_KEY; a well-formed key of 2n digits reaches the
\* signing capability as the n bytes its digit pairs denote, in order
\* ("0102" gives [1,2])
C15_KeyDecodedBeforeSigning ==
    \A r \in DOMAIN req :
        req[r].kind = "seal" =>
            LET key == req[r].args.privateKey
                digits == WithoutPrefix(key)
            IN  /\ Malformed(key) =>
                    /\ req[r].entity = NoEntity
                    /\ "sign" \notin Range(req[r].trace)
                    /\ req[r].pc = "done" => ~req[r].outcome.ok
                    /\ req[r].pc = "done" /\ "key" \in Range(req[r].trace)
                        => req[r].outcome = Failed("INVALID_KEY")
                /\ req[r].pc = "done" /\ ~Malformed(key) =>
                    req[r].outcome # Failed("INVALID_KEY")
                /\ req[r].entity # NoEntity =>
                    LET bytes == req[r].entity.call.privateKey IN
                    /\ Len(bytes) * 2 = Len(digits)
                    /\ \A i \in 1..Len(bytes) :
                        bytes[i] = 16 * HexDigitValue[digits[2 * i - 1]]
                                   + HexDigitValue[digits[2 * i]]
                    /\ key = <<"0", "1", "0", "2">> => bytes = <<1, 2>>
                    /\ key = <<"0", "x", "F", "2">> => bytes = <<242>>

\* a key of one digit behind a 0x prefix: the call got as
\* far as decoding it and failed with INVALID_KEY
C15_Witness ==
    \E r \in DOMAIN req :
        /\ req[r].kind = "seal" /\ req[r].pc = "done"
        /\ req[r].args.privateKey = <<"0", "x", "1">>
        /\ req[r].outcome = Failed("INVALID_KEY")
        /\ req[r].entity = NoEntity

-----------------------------------------------------------------------------
(* tools/extract.ts, validate_edm: defaultValidator, ValidateToolHandler *)

NoContent == [none |-> TRUE]
NoProvenance == [none |-> TRUE]
NoExtraction == [none |-> TRUE]

\* schema_version.match(/^\d+\.\d+\.\d+$/), over the versions the model uses
SemverStrings == {"0.4.0", "1.0.0"}

ValidationIssue(path, message, code) == [path |-> path, message |-> message, code |-> code]

\* a sequence with f applied to each element
MapSeq(f(_), seq) == [i \in 1..Len(seq) |-> f(seq[i])]

\* defaultValidator
defaultValidator(a) ==
    IF a = NoArtifact
        THEN [valid |-> FALSE,
              errors |-> <<ValidationIssue("", "Artifact is null or undefined",
                                           "MISSING_ARTIFACT")>>,
              warnings |-> List(<<>>)]
    ELSE
    LET missing(path) ==
            <<ValidationIssue(path, "Missing required field: " \o path, "MISSING_FIELD")>>
        version ==
            IF ~TruthyStr(a.schema_version) THEN missing("schema_version")
            ELSE IF a.schema_version \notin SemverStrings
                THEN <<ValidationIssue("schema_version",
                            "Invalid schema_version format (expected semver)",
                            "INVALID_FORMAT")>>
            ELSE <<>>
        id == IF ~TruthyStr(a.artifact_id) THEN missing("artifact_id") ELSE <<>>
        created ==
            IF a.meta = NoMeta THEN <<>>
            ELSE IF ~TruthyDate(a.meta.created_at) THEN missing("meta.created_at")
            ELSE IF a.meta.created_at = BadDate
                THEN <<ValidationIssue("meta.created_at", "Invalid ISO8601 date format",
                                       "INVALID_FORMAT")>>
            ELSE <<>>
        visibility ==
            IF a.meta = NoMeta THEN <<>>
            ELSE IF TruthyStr(a.meta.visibility)
                    /\ a.meta.visibility \notin {"public", "private", "shared"}
                THEN <<ValidationIssue("meta.visibility", "Invalid visibility value",
                                       "INVALID_VALUE")>>
            ELSE <<>>
        meta == IF a.meta = NoMeta THEN missing("meta") ELSE created \o visibility
        content ==
            IF a.content = NoContent THEN missing("content")
            ELSE (IF ~TruthyStr(a.content.type) THEN missing("content.type") ELSE <<>>)
                 \o (IF ~TruthyStr(a.content.data) THEN missing("content.data") ELSE <<>>)
        provenance ==
            IF a.provenance = NoProvenance THEN missing("provenance")
            ELSE IF ~TruthyStr(a.provenance.source) THEN missing("provenance.source")
            ELSE <<>>
        govError(e) == ValidationIssue("governance", e, "GOVERNANCE_ERROR")
        govWarning(w) == ValidationIssue("governance", w, "GOVERNANCE_WARNING")
        governance ==
            IF a.governance = NoGovernance THEN missing("governance")
            ELSE MapSeq(govError, validateGovernance(a).errors)
        errors == version \o id \o meta \o content \o provenance \o governance
        visibilityWarning ==
            IF a.meta # NoMeta /\ ~TruthyStr(a.meta.visibility)
                THEN <<ValidationIssue("meta.visibility",
                            "Missing visibility, will default to private",
                            "MISSING_OPTIONAL")>>
                ELSE <<>>
        governanceWarnings ==
            IF a.governance = NoGovernance THEN <<>>
            ELSE MapSeq(govWarning, validateGovernance(a).warnings)
        extractionWarning ==
            IF a.extraction # NoExtraction /\ ~TruthyDate(a.extraction.extracted_at)
                THEN <<ValidationIssue("extraction.extracted_at",
                            "Missing extraction timestamp", "MISSING_OPTIONAL")>>
                ELSE <<>>
        warnings == visibilityWarning \o governanceWarnings \o extractionWarning
    IN  [valid |-> errors = <<>>, errors |-> errors,
         warnings |-> IF Len(warnings) > 0 THEN List(warnings) ELSE NoWarnings]

\* result.warnings && result.warnings.length > 0
HasWarnings(validated) ==
    validated.warnings # NoWarnings /\ Len(validated.warnings.items) > 0

\* execute that lets a strict result stay valid when there are no errors
ValidateExecute_strictKeepsValid(args) ==
    LET validated == defaultValidator(args.artifact)
        strictError(w) == ValidationIssue(w.path, "[Strict] " \o w.message,
                                          "STRICT_" \o w.code)
    IN  IF args.strict /\ HasWarnings(validated)
            THEN [valid |-> validated.valid,
                  errors |-> validated.errors
                             \o MapSeq(strictError, validated.warnings.items),
                  warnings |-> NoWarnings]
            ELSE validated

\* ValidateToolHandler.execute
ValidateExecute(args) ==
    LET validated == defaultValidator(args.artifact)
        strictError(w) == ValidationIssue(w.path, "[Strict] " \o w.message,
                                          "STRICT_" \o w.code)
    IN  IF args.strict /\ HasWarnings(validated)
            THEN [valid |-> FALSE,
                  errors |-> validated.errors
                             \o MapSeq(strictError, validated.warnings.items),
                  warnings |-> NoWarnings]
            ELSE validated

\* CallTool handler, validate_edm: the await of auth(request) resumes, the
\* identity is assigned to the slot, and the validation runs and returns
ValidateAuthResume(r) ==
    /\ req[r].kind = "validate" /\ req[r].pc = "auth"
    /\ currentAuthContext' = req[r].identity
    /\ req' = Finish(r, [ok |-> TRUE, value |-> ValidateExecute(req[r].args)],
                     <<>>, {})
    /\ UNCHANGED <<objs, store, envStore>>
    /\ SrvFrame


-----------------------------------------------------------------------------
(* SpecValidate: one validate_edm call *)

\* artifacts as validate_edm receives them: any part may be missing
ValidateMetas ==
    {NoMeta} \cup {MkMeta(c, v, "u1", Absent) :
                      c \in {IsoDate(0), NoDate, BadDate},
                      v \in {"private", Absent, "secret"}}
ValidateContents ==
    {NoContent, [type |-> "test", data |-> "d0"], [type |-> Absent, data |-> Absent]}
ValidateProvenances == {NoProvenance, [source |-> "test"], [source |-> Absent]}
ValidateGovernances ==
    {NoGovernance, MkGovernance("allowed", NoRetention),
     MkGovernance(Absent, NoRetention), MkGovernance("unknown", NoRetention),
     MkGovernance("restricted", MkRetention(Num(1), IsoDate(DayMs)))}
ValidateExtractions ==
    {NoExtraction, [extracted_at |-> IsoDate(0)], [extracted_at |-> NoDate]}
ValidateArtifacts ==
    {NoArtifact} \cup
    {[schema_version |-> sv, artifact_id |-> id, meta |-> m, content |-> c,
      provenance |-> p, governance |-> g, extraction |-> x] :
        sv \in {"0.4.0", "v4", Absent}, id \in {"a1", ""}, m \in ValidateMetas,
        c \in ValidateContents, p \in ValidateProvenances,
        g \in ValidateGovernances, x \in ValidateExtractions}

InitValidate ==
    /\ GovIdle
    /\ MemEmpty
    /\ now = 0
    /\ result = NoResult
    /\ envStore = <<>>
    /\ currentAuthContext = NoContext /\ files = <<>>
    /\ \E a \in ValidateArtifacts, strict \in BOOLEAN :
        req = <<MkRequest("validate", Uri("", ""),
                          [artifact |-> a, strict |-> strict], NoContext)>>

NextValidate == ValidateAuthResume(1)

SpecValidate == InitValidate /\ [][NextValidate]_vars

\* the validate call has returned
Validated == req # <<>> /\ req[1].kind = "validate" /\ req[1].pc = "done"

\* the error a strict call reports for a warning
IsStrictErrorOf(e, w) ==
    /\ e.path = w.path
    /\ e.code = "STRICT_" \o w.code
    /\ e.message = "[Strict] " \o w.message

\* C16: a strict validate call answers valid exactly when the non-strict
\* validation of the same artifact has no errors and no warnings; when that
\* validation has warnings, the strict error list is its errors followed by one
\* STRICT_ error per warning, in order; a non-strict call answers valid exactly
\* when its error list is empty, whatever its warnings.
C16_StrictCountsWarnings ==
    Validated =>
        LET args == req[1].args
            got == req[1].outcome.value
            plain == defaultValidator(args.artifact)
            plainWarnings ==
                IF plain.warnings = NoWarnings THEN <<>> ELSE plain.warnings.items
            n == Len(plain.errors)
        IN  /\ req[1].outcome.ok
            /\ args.strict =>
                /\ got.valid <=> (plain.errors = <<>> /\ plainWarnings = <<>>)
                /\ plainWarnings # <<>> =>
                    /\ Len(got.errors) = n + Len(plainWarnings)
                    /\ \A i \in 1..n : got.errors[i] = plain.errors[i]
                    /\ \A i \in 1..Len(plainWarnings) :
                        IsStrictErrorOf(got.errors[n + i], plainWarnings[i])
            /\ ~args.strict => (got.valid <=> got.errors = <<>>)

\* a strict call on an artifact whose validation has an error and two warnings,
\* and so answers with three errors
C16_Witness ==
    /\ Validated
    /\ req[1].args.strict
    /\ Len(defaultValidator(req[1].args.artifact).errors) = 1
    /\ defaultValidator(req[1].args.artifact).warnings # NoWarnings
    /\ Len(defaultValidator(req[1].args.artifact).warnings.items) = 2
    /\ Len(req[1].outcome.value.errors) = 3
    /\ ~req[1].outcome.value.valid


-----------------------------------------------------------------------------
(* resources/edm.ts, auth middleware: composeAuthMiddleware, withOrganizationHeader *)

\* a call of a middleware built by composeAuthMiddleware or
\* withOrganizationHeader, suspended before its first statement.  A resolver
\* is given by the context it resolves the request at hand to.
MkAuthCall(kind, args) ==
    [kind |-> kind, args |-> args, pc |-> "called", calls |-> <<>>,
     answers |-> <<>>, outcome |-> Running]

\* the for loop reaches middleware i: it is invoked and awaited, or the list
\* is exhausted and the composition returns null
ComposeLoop(r, call, i) ==
    IF i <= Len(call.args.middlewares)
        THEN [req EXCEPT ![r] = [call EXCEPT !.pc = "await",
                                             !.calls = Append(call.calls, i)]]
        ELSE [req EXCEPT ![r] = [call EXCEPT !.pc = "done",
                                     !.outcome = [ok |-> TRUE, value |-> NoContext]]]

\* composeAuthMiddleware: the composed middleware is called and runs to its
\* first await
ComposeCall(r) ==
    /\ req[r].kind = "compose" /\ req[r].pc = "called"
    /\ req' = ComposeLoop(r, req[r], 1)
    /\ UNCHANGED <<objs, store, envStore, currentAuthContext>>
    /\ SrvFrame

\* the awaited middleware resolves, and the composition answers at the end
\* of the list with the last context it got
ComposeResume_lastWins(r) ==
    /\ req[r].kind = "compose" /\ req[r].pc = "await"
    /\ LET i == req[r].calls[Len(req[r].calls)]
           ctx == req[r].args.middlewares[i]
           call == [req[r] EXCEPT !.answers = Append(req[r].answers, ctx)]
       IN  req' = IF ctx # NoContext /\ i = Len(call.args.middlewares)
                      THEN [req EXCEPT ![r] = [call EXCEPT !.pc = "done",
                                   !.outcome = [ok |-> TRUE, value |-> ctx]]]
                      ELSE ComposeLoop(r, call, i + 1)
    /\ UNCHANGED <<objs, store, envStore, currentAuthContext>>
    /\ SrvFrame

\* composeAuthMiddleware: the awaited middleware resolves; a context is
\* returned, null moves the loop on
ComposeResume(r) ==
    /\ req[r].kind = "compose" /\ req[r].pc = "await"
    /\ LET i == req[r].calls[Len(req[r].calls)]
           ctx == req[r].args.middlewares[i]
           call == [req[r] EXCEPT !.answers = Append(req[r].answers, ctx)]
       IN  req' = IF ctx # NoContext
                      THEN [req EXCEPT ![r] = [call EXCEPT !.pc = "done",
                                   !.outcome = [ok |-> TRUE, value |-> ctx]]]
                      ELSE ComposeLoop(r, call, i + 1)
    /\ UNCHANGED <<objs, store, envStore, currentAuthContext>>
    /\ SrvFrame

-----------------------------------------------------------------------------
(* SpecCompose: one call of a composed middleware *)

MaxResolvers == 3

ResolverAnswers ==
    {NoContext,
     MkContext("u1", {"user"}, Absent, NoList),
     MkContext("u2", {"user", "admin"}, "o1", NoList),
     MkContext("u3", {"user"}, "o2", List({"artifact:read:a1"}))}

SeqsUpTo(S, n) == UNION {[1..k -> S] : k \in 0..n}

InitCompose ==
    /\ GovIdle
    /\ MemEmpty
    /\ now = 0
    /\ result = NoResult
    /\ envStore = <<>>
    /\ currentAuthContext = NoContext /\ files = <<>>
    /\ \E ms \in SeqsUpTo(ResolverAnswers, MaxResolvers) :
        req = <<MkAuthCall("compose", [middlewares |-> ms])>>

NextCompose ==
    \/ ComposeCall(1)
    \/ ComposeResume(1)

SpecCompose == InitCompose /\ [][NextCompose]_vars

\* the resolvers that answer the request with a context
Resolving(ms) == {i \in 1..Len(ms) : ms[i] # NoContext}

Min(S) == CHOOSE x \in S : \A y \in S : x <= y

\* C17: a composed middleware invokes its resolvers in list order, one at a
\* time: a resolver is invoked only after every resolver before it has answered
\* none; it returns the first context a resolver answers and invokes no
\* resolver after that one, and returns none only after every resolver has
\* answered none.
C17_FirstMatchWins ==
    \A r \in DOMAIN req : req[r].kind = "compose" =>
        LET call == req[r]
            ms == call.args.middlewares
            k == Len(call.calls)
        IN  /\ call.calls = [i \in 1..k |-> i]
            /\ Len(call.answers) = IF call.pc = "await" THEN k - 1 ELSE k
            /\ \A i \in 1..Len(call.answers) : call.answers[i] = ms[i]
            /\ \A i \in 1..(k - 1) : call.answers[i] = NoContext
            /\ call.pc = "done" =>
                IF Resolving(ms) = {}
                    THEN call.outcome.value = NoContext /\ k = Len(ms)
                    ELSE /\ call.outcome.value = ms[Min(Resolving(ms))]
                         /\ k = Min(Resolving(ms))

\* three resolvers, the first answers none, the second a plain user and the
\* third an admin: the call returned the second's context after two calls
C17_Witness ==
    /\ req # <<>> /\ req[1].kind = "compose" /\ req[1].pc = "done"
    /\ Len(req[1].args.middlewares) = 3
    /\ req[1].args.middlewares[1] = NoContext
    /\ req[1].args.middlewares[2] = MkContext("u1", {"user"}, Absent, NoList)
    /\ req[1].args.middlewares[3] = MkContext("u2", {"user", "admin"}, "o1", NoList)
    /\ req[1].calls = <<1, 2>>
    /\ req[1].outcome.value = MkContext("u1", {"user"}, Absent, NoList)


-----------------------------------------------------------------------------
(* withOrganizationHeader, extractHeaders *)

\* String.prototype.toLowerCase over the header names the model uses
ToLowerCase(s) ==
    CASE s = "X-Organization-Id" -> "x-organization-id"
      [] s = "X-Tenant-Id" -> "x-tenant-id"
      [] OTHER -> s

NoHeader == "absent"

\* a request that is not an object, one with a headers object, one with
\* MCP-style params._meta.headers; headers are a list of entries in insertion
\* order
NoRequest == [shape |-> "none", entries |-> <<>>]
HeadersRequest(entries) == [shape |-> "headers", entries |-> entries]
MetaRequest(entries) == [shape |-> "meta", entries |-> entries]

\* the value a headers record holds under name: the last entry stored under it
RECURSIVE HeaderLookup(_, _)
HeaderLookup(entries, name) ==
    IF entries = <<>> THEN NoHeader
    ELSE LET last == entries[Len(entries)]
         IN  IF last.key = name THEN last.value
             ELSE HeaderLookup(SubSeq(entries, 1, Len(entries) - 1), name)

\* extractHeaders: the entries of request.headers under lower-cased names, or
\* params._meta.headers as it is, or nothing
extractHeaders(request) ==
    IF request.shape = "headers"
        THEN [i \in 1..Len(request.entries) |->
                [key |-> ToLowerCase(request.entries[i].key),
                 value |-> request.entries[i].value]]
    ELSE IF request.shape = "meta" THEN request.entries
    ELSE <<>>

\* withOrganizationHeader: the wrapper is called, invokes the base
\* middleware and awaits it
WithOrgCall(r) ==
    /\ req[r].kind = "withOrg" /\ req[r].pc = "called"
    /\ req' = [req EXCEPT ![r].pc = "await", ![r].calls = <<1>>]
    /\ UNCHANGED <<objs, store, envStore, currentAuthContext>>
    /\ SrvFrame

\* withOrganizationHeader: the base middleware resolves; null is returned as
\* it is, otherwise a header value under orgHeader becomes the organizationId
\* of a copy of the context
WithOrgResume(r) ==
    /\ req[r].kind = "withOrg" /\ req[r].pc = "await"
    /\ LET ctx == req[r].args.base
           headers == extractHeaders(req[r].args.request)
           orgId == HeaderLookup(headers, ToLowerCase(req[r].args.orgHeader))
           call == [req EXCEPT ![r].answers = <<ctx>>]
       IN  req' = IF ctx = NoContext
                      THEN [call EXCEPT ![r].pc = "done",
                               ![r].outcome = [ok |-> TRUE, value |-> NoContext]]
                  ELSE IF TruthyStr(orgId)
                      THEN [call EXCEPT ![r].pc = "done",
                               ![r].outcome = [ok |-> TRUE,
                                   value |-> [ctx EXCEPT !.organizationId = orgId]]]
                  ELSE [call EXCEPT ![r].pc = "done",
                               ![r].outcome = [ok |-> TRUE, value |-> ctx]]
    /\ UNCHANGED <<objs, store, envStore, currentAuthContext>>
    /\ SrvFrame

-----------------------------------------------------------------------------
(* SpecOrgHeader: one call of a middleware wrapped by withOrganizationHeader *)

MaxHeaders == 2

HeaderEntries ==
    {[key |-> k, value |-> v] :
        k \in {"x-organization-id", "X-Organization-Id", "x-tenant-id"},
        v \in {"org-h", ""}}

\* header records: no name twice
HeaderLists ==
    {hs \in SeqsUpTo(HeaderEntries, MaxHeaders) :
        \A i, j \in 1..Len(hs) : hs[i].key = hs[j].key => i = j}

OrgRequests ==
    {NoRequest} \cup {HeadersRequest(hs) : hs \in HeaderLists}
                \cup {MetaRequest(hs) : hs \in HeaderLists}

InitOrgHeader ==
    /\ GovIdle
    /\ MemEmpty
    /\ now = 0
    /\ result = NoResult
    /\ envStore = <<>>
    /\ currentAuthContext = NoContext /\ files = <<>>
    /\ \E base \in ResolverAnswers, request \in OrgRequests,
          orgHeader \in {"x-organization-id", "X-Tenant-Id"} :
        req = <<MkAuthCall("withOrg", [base |-> base, request |-> request,
                                        orgHeader |-> orgHeader])>>

NextOrgHeader ==
    \/ WithOrgCall(1)
    \/ WithOrgResume(1)

SpecOrgHeader == InitOrgHeader /\ [][NextOrgHeader]_vars

\* the fields a context carries, and whether it has one
ContextFields == {"userId", "roles", "organizationId", "permissions"}
HasField(ctx, f) ==
    CASE f = "organizationId" -> ctx.organizationId # Absent
      [] f = "permissions" -> ctx.permissions # NoList
      [] OTHER -> TRUE

\* C18: the wrapper only adds to the context its base resolver returned: every
\* field the base context has, its organization id included, has the same
\* value in the wrapper's result; and a base resolver that returns none makes
\* the wrapper return none.
C18_OnlyAddsFields ==
    \A r \in DOMAIN req : (req[r].kind = "withOrg" /\ req[r].pc = "done") =>
        LET base == req[r].args.base
            got == req[r].outcome.value
        IN  IF base = NoContext THEN got = NoContext
            ELSE /\ got # NoContext
                 /\ \A f \in ContextFields : HasField(base, f) => got[f] = base[f]


-----------------------------------------------------------------------------
(* SpecSave: artifacts and envelopes, well-formed or not, saved to the   *)
(* volatile stores                                                       *)

\* MemoryEnvelopeStorage.save called with one of the given envelopes
MemEnvelopeSave(inputs) ==
    /\ \E e \in inputs :
        LET saved == memEnvelopeSave(envStore, e, now) IN
            /\ envStore' = saved.store
            /\ result' = IF saved.ok
                            THEN [op |-> "saveEnvelope", envelope |-> e, ok |-> TRUE,
                                  id |-> saved.id]
                            ELSE [op |-> "saveEnvelope", envelope |-> e, ok |-> FALSE,
                                  error |-> saved.error]
    /\ UNCHANGED <<objs, store, now, currentAuthContext, req, files>>
    /\ UNCHANGED <<artifact, context, purpose>>

SaveInputs ==
    {[MkArtifact(i, MkMeta(IsoDate(0), "private", "u1", Absent), g)
        EXCEPT !.schema_version = s] :
        <<i, s, g>> \in
            {<<Absent, "0.4.0", MkGovernance("allowed", NoRetention)>>,
             <<"a1", "0.4.0", MkGovernance("allowed", NoRetention)>>,
             <<Absent, Absent, MkGovernance("allowed", NoRetention)>>,
             <<Absent, "0.4.0", NoGovernance>>,
             <<"a1", "0.4.0", NoGovernance>>}}

SaveEnvelopes ==
    LET a1 == MkArtifact("a1", MkMeta(IsoDate(0), "private", "u1", Absent),
                         MkGovernance("allowed", NoRetention))
    IN  {MkEnvelope(a1, MkSignature("sig", "did:key:s1"), IsoDate(0)),
         MkEnvelope(NoEnvelopePart, MkSignature("sig", "did:key:s1"), IsoDate(0)),
         MkEnvelope(a1, NoEnvelopePart, IsoDate(0)),
         MkEnvelope(a1, MkSignature("sig", Absent), IsoDate(0)),
         MkEnvelope(a1, MkSignature("sig", ""), IsoDate(0))}

InitSave ==
    /\ GovIdle
    /\ now = 0
    /\ result = NoResult
    /\ MemEmpty
    /\ SrvIdle

NextSave ==
    \/ ClientCreate(SaveInputs)
    \/ ClientDrop
    \/ MemArtifactSave
    \/ MemEnvelopeSave(SaveEnvelopes)

SpecSave == InitSave /\ [][NextSave]_vars

\* an artifact save refuses: no schema version or no governance
Unsavable(a) == ~TruthyStr(a.schema_version) \/ a.governance = NoGovernance

\* an envelope save refuses: no artifact, no signature or no signer identity
UnsavableEnvelope(e) ==
    \/ e.artifact = NoEnvelopePart
    \/ e.signature = NoEnvelopePart
    \/ ~TruthyStr(e.signature.signer_did)

\* C19: save validates before it persists.  Saving an artifact without schema
\* version or governance, or an envelope without artifact, signature or signer
\* identity, fails with INVALID_DATA and leaves both stores, and what every
\* load returns, as they were; an otherwise well-formed artifact saved without
\* an id gets a generated id, which save returns and under which load finds
\* the artifact.
C19_SaveValidatesFirst ==
    [][ /\ result'.op = "save" =>
            LET a == objs[result'.ref].val IN
            /\ Unsavable(a) =>
                /\ ~result'.ok /\ result'.error = "INVALID_DATA"
                /\ store' = store /\ envStore' = envStore
                /\ \A id \in AllIds :
                    LoadValue(store', objs', id) = LoadValue(store, objs, id)
            /\ (~Unsavable(a) /\ ~TruthyStr(a.artifact_id)) =>
                /\ result'.ok
                /\ result'.id \in GeneratedIds
                /\ objs'[result'.ref].val.artifact_id = result'.id
                /\ LoadValue(store', objs', result'.id)
                      = [ok |-> TRUE, value |-> [a EXCEPT !.artifact_id = result'.id]]
        /\ (result'.op = "saveEnvelope" /\ UnsavableEnvelope(result'.envelope)) =>
            /\ ~result'.ok /\ result'.error = "INVALID_DATA"
            /\ envStore' = envStore /\ store' = store
      ]_vars

\* a save has just refused an artifact while the store holds an artifact
\* under a generated id and the envelope store holds an envelope
C19_Witness ==
    /\ result.op = "save" /\ ~result.ok
    /\ \E g \in GeneratedIds : MapHas(store, g)
    /\ envStore # <<>>


-----------------------------------------------------------------------------
(* SpecExists: save, delete, clear, exists, load and list on the         *)
(* volatile artifact store                                               *)

\* MemoryArtifactStorage.exists
MemArtifactExists ==
    /\ \E id \in {"a1", "a2", "a3"} \cup GeneratedIds :
        result' = [op |-> "exists", id |-> id, ok |-> TRUE,
                   value |-> MapHas(store, id)]
    /\ UNCHANGED <<objs, store, now>>
    /\ UNCHANGED <<artifact, context, purpose>>
    /\ UNCHANGED srvVars

NextExists ==
    \/ ClientCreate(StoreInputs)
    \/ ClientDrop
    \/ MemArtifactSave
    \/ MemArtifactLoad
    \/ MemArtifactDelete
    \/ MemArtifactClear
    \/ MemArtifactExists
    \/ MemArtifactList({NoFilter})

SpecExists == InitStore /\ [][NextExists]_vars

\* exists, load and list agree on every id
StoreAgrees(m, heap) ==
    \A id \in AllIds :
        /\ MapHas(m, id) <=> LoadValue(m, heap, id).ok
        /\ MapHas(m, id) <=> id \in Range(MemArtifactListIds(m, heap, NoFilter))

\* C20: whatever saves, deletes and clears have happened, exists(id) is true
\* exactly when load(id) succeeds and exactly when list() holds id, and exists
\* answers without failing; a delete of an absent id fails with NOT_FOUND and
\* changes nothing; a delete of a present id removes that record and no other,
\* and afterwards exists(id) is false and load(id) fails with NOT_FOUND.
C20_ExistsLoadListAgree ==
    [][ /\ StoreAgrees(store, objs) /\ StoreAgrees(store', objs')
        /\ result'.op = "exists" =>
            /\ result'.ok
            /\ result'.value <=> LoadValue(store, objs, result'.id).ok
        /\ result'.op = "load" => (result'.ok <=> MapHas(store, result'.id))
        /\ result'.op = "list" =>
            \A id \in AllIds : id \in Range(result'.ids) <=> MapHas(store, id)
        /\ (result'.op = "delete" /\ ~MapHas(store, result'.id)) =>
            /\ ~result'.ok /\ result'.error = "NOT_FOUND"
            /\ store' = store
        /\ (result'.op = "delete" /\ MapHas(store, result'.id)) =>
            /\ result'.ok
            /\ ~MapHas(store', result'.id)
            /\ LoadValue(store', objs', result'.id)
                  = [ok |-> FALSE, error |-> "NOT_FOUND"]
            /\ \A id \in AllIds \ {result'.id} :
                  LoadValue(store', objs', id) = LoadValue(store, objs, id)
            /\ Len(store') = Len(store) - 1
      ]_vars

\* a delete has removed one of two stored artifacts
C20_Witness ==
    /\ result.op = "delete" /\ result.ok
    /\ Len(store) = 1
    /\ ~MapHas(store, result.id)


-----------------------------------------------------------------------------
(* SpecEnvelope: envelopes saved to the volatile envelope store while    *)
(* the clock runs                                                        *)

\* envelopes of two artifacts, each sealed by two signers, and one without
\* a signature
EnvelopeInputs ==
    {MkEnvelope(MkArtifact(i, MkMeta(IsoDate(0), "private", "u1", Absent),
                           MkGovernance("allowed", NoRetention)),
                sig, IsoDate(0)) :
        i \in {"a1", "a2"},
        sig \in {MkSignature("sig", "did:key:s1"), MkSignature("sig", "did:key:s2"),
                 NoEnvelopePart}}

InitEnvelope ==
    /\ GovIdle
    /\ now = 0
    /\ result = NoResult
    /\ MemEmpty
    /\ SrvIdle

NextEnvelope ==
    \/ MemEnvelopeSave(EnvelopeInputs)
    \/ Tick

SpecEnvelope == InitEnvelope /\ [][NextEnvelope]_vars

\* C21: envelopes are create-only.  Every envelope save that succeeds returns
\* an identifier that no envelope of the store has yet, so every envelope saved
\* before is still stored, unaltered, under its identifier, two saves for the
\* same artifact id in immediate succession included.
C21_EnvelopesCreateOnly ==
    [][ (result'.op = "saveEnvelope" /\ result'.ok) =>
            /\ ~EnvHas(envStore, result'.id)
            /\ \A i \in 1..Len(envStore) :
                /\ EnvHas(envStore', envStore[i].key)
                /\ EnvGet(envStore', envStore[i].key) = envStore[i].val
      ]_vars


-----------------------------------------------------------------------------
(* SpecPersist: artifacts with every kind of governance saved to the     *)
(* volatile artifact store, and the store cleared                        *)

PersistInputs ==
    {MkArtifact(i, MkMeta(IsoDate(0), "private", "u1", Absent), g) :
        i \in {Absent, "a1"},
        g \in {MkGovernance("allowed", NoRetention),
               MkGovernance(Absent, NoRetention),
               MkGovernance("unknown", NoRetention)}}
    \cup {MkArtifact("a1", MkMeta(IsoDate(0), "private", "u1", Absent), NoGovernance)}

NextPersist ==
    \/ ClientCreate(PersistInputs)
    \/ ClientDrop
    \/ MemArtifactSave
    \/ MemArtifactClear

SpecPersist == InitStore /\ [][NextPersist]_vars

\* C22: every artifact the store holds has a non-empty identifier, a schema
\* version and a governance aggregate whose exportability is allowed,
\* restricted or prohibited: a save of an artifact whose exportability is
\* missing or unknown is rejected, not persisted.
C22_PersistedAreWellFormed ==
    \A i \in 1..Len(store) :
        LET a == objs[store[i].ref].val
        IN  /\ TruthyStr(a.artifact_id)
            /\ TruthyStr(a.schema_version)
            /\ a.governance # NoGovernance
            /\ a.governance.exportability \in Exportabilities


-----------------------------------------------------------------------------
(* SpecExtract: one extract_from_content call, with each kind of          *)
(* extraction capability                                                  *)

\* what a capability other than the placeholder returns
ExtractedArtifacts ==
    {MkArtifact("x1", MkMeta(IsoDate(0), "public", Absent, Absent),
                MkGovernance("allowed", NoRetention)),
     MkArtifact("x1", MkMeta(NoDate, Absent, "u9", "o9"),
                MkGovernance(Absent, NoRetention)),
     MkArtifact(Absent, NoMeta, NoGovernance),
     [MkArtifact("x1", NoMeta, NoGovernance) EXCEPT !.schema_version = Absent]}

ExtractFns ==
    {DefaultExtractFn, FailingExtractFn}
        \cup {CustomExtractFn(a) : a \in ExtractedArtifacts}

ExtractTexts == {Absent, "", " ", "   ", "text", " text "}

ExtractIdentities ==
    {NoContext,
     MkContext("u1", {"user"}, "o1", NoList),
     MkContext("u2", {"user", "admin"}, Absent, NoList)}

InitExtract ==
    /\ GovIdle
    /\ now \in Times
    /\ result = NoResult
    /\ envStore = <<>>
    /\ currentAuthContext = NoContext /\ files = <<>>
    /\ LET a == MkArtifact("a1", MkMeta(IsoDate(0), "private", "u1", "o1"),
                           MkGovernance("allowed", NoRetention))
       IN  \/ MemEmpty
           \/ /\ objs = Alloc([ref \in Refs |-> Free], a, FALSE)
              /\ store = <<[key |-> "a1", ref |-> 1]>>
    /\ \E t \in ExtractTexts, sv \in BOOLEAN, fn \in ExtractFns,
          identity \in ExtractIdentities :
        req = <<MkRequest("extract", Uri("", ""),
                          [text |-> t, save |-> sv, extractFn |-> fn], identity)>>

NextExtract ==
    \/ ExtractAuthResume(1)
    \/ ExtractResume(1)

SpecExtract == InitExtract /\ [][NextExtract]_vars

\* the text is empty or only white space
BlankText(t) == t \in {Absent, "", " ", "   "}

\* "name" is in the trace
Ran(trace, name) == \E i \in 1..Len(trace) : trace[i] = name

\* C23: extract maps each failure to its typed error and stops there.  Empty
\* or blank text fails with INVALID_INPUT and the capability is not invoked; a
\* capability failure yields EXTRACTION_FAILED and no storage write; a persist
\* failure yields STORAGE_FAILED carrying the storage error; no failed call
\* adds an artifact to the store.
C23_ExtractFailuresTyped ==
    [][ \A r \in DOMAIN req :
          LET args == req[r].args
              done == req'[r].pc = "done" /\ req[r].pc # "done"
              out == req'[r].outcome
          IN
          /\ (done /\ BlankText(args.text)) =>
                /\ ~out.ok /\ out.error = "INVALID_INPUT"
                /\ ~Ran(req'[r].trace, "extractFn")
          /\ (done /\ ~BlankText(args.text) /\ args.extractFn = FailingExtractFn) =>
                /\ ~out.ok /\ out.error = "EXTRACTION_FAILED"
                /\ out.cause = ExtractFnError
                /\ ~Ran(req'[r].trace, "save")
          /\ (done /\ Ran(req'[r].trace, "save") /\ ~out.ok) =>
                /\ out.error = "STORAGE_FAILED"
                /\ out.cause = "INVALID_DATA"
          /\ (done /\ ~BlankText(args.text) /\ args.extractFn.kind = "custom"
                /\ args.save /\ ~TruthyStr(args.extractFn.artifact.schema_version)) =>
                /\ ~out.ok /\ out.error = "STORAGE_FAILED"
          /\ (done /\ ~out.ok) =>
                out.error \in {"INVALID_INPUT", "EXTRACTION_FAILED", "STORAGE_FAILED"}
          /\ (~(done /\ out.ok)) => (store' = store /\ objs' = objs)
      ]_vars

\* a call whose capability returned an artifact without schema version has
\* failed to persist it, next to an artifact stored before
C23_Witness ==
    /\ req # <<>> /\ req[1].kind = "extract" /\ req[1].pc = "done"
    /\ ~req[1].outcome.ok /\ req[1].outcome.error = "STORAGE_FAILED"
    /\ req[1].outcome.cause = "INVALID_DATA"
    /\ Len(store) = 1


\* the value the capability supplied for a string, or else the default
SuppliedOr(part, field, default) ==
    IF part = [none |-> TRUE] \/ part[field] = Absent THEN default ELSE part[field]

\* C24: when an extract call made with a resolved identity succeeds, the
\* artifact it returns has that identity's user id and organization id as
\* owner, and an exportability and a visibility: what the capability supplied,
\* or else restricted and private; with save = true the artifact stored under
\* the returned id is that artifact.
C24_OwnerStampedDefaultsApplied ==
    [][ \A r \in DOMAIN req :
          (/\ req[r].kind = "extract" /\ req[r].pc # "done"
           /\ req'[r].pc = "done" /\ req'[r].outcome.ok
           /\ req[r].identity # NoContext) =>
            LET a == req'[r].outcome.artifact
                supplied == req[r].entity
            IN  /\ a.meta.owner_user_id = req[r].identity.userId
                /\ a.meta.owner_org_id = req[r].identity.organizationId
                /\ a.governance.exportability
                      = SuppliedOr(supplied.governance, "exportability", "restricted")
                /\ a.meta.visibility = SuppliedOr(supplied.meta, "visibility", "private")
                /\ req[r].args.save =>
                    /\ req'[r].outcome.savedId = a.artifact_id
                    /\ LoadValue(store', objs', a.artifact_id)
                          = [ok |-> TRUE, value |-> a]
      ]_vars


-----------------------------------------------------------------------------
(* SpecExpiry: isExpired called on one artifact while the clock runs     *)

ExpiryRetentions ==
    {NoRetention}
        \cup {MkRetention(d, e) :
                d \in {NoNum, Num(0), Num(1)},
                e \in {NoDate, BadDate} \cup {IsoDate(t) : t \in Times}}

ExpiryArtifacts ==
    {MkArtifact("a1", MkMeta(c, "private", "u1", Absent), MkGovernance("allowed", r)) :
        c \in {IsoDate(0), IsoDate(DayMs), BadDate}, r \in ExpiryRetentions}

InitExpiry ==
    /\ artifact \in ExpiryArtifacts
    /\ context = NoContext
    /\ purpose = "read"
    /\ now = 0
    /\ result = NoResult
    /\ MemEmpty
    /\ SrvIdle

CallIsExpired ==
    /\ result' = [op |-> "isExpired", at |-> now, value |-> isExpired(artifact, now)]
    /\ UNCHANGED <<artifact, context, purpose, now>>
    /\ UNCHANGED memVars
    /\ UNCHANGED srvVars

NextExpiry ==
    \/ CallIsExpired
    \/ Tick

SpecExpiry == InitExpiry /\ [][NextExpiry]_vars

\* the instant a date string denotes is before clock; no instant is before
\* anything when the string is not a date
Before(date, offset, clock) ==
    date # NoDate /\ date # BadDate /\ date.iso + offset < clock

\* C25: isExpired at time now is false when there is no retention policy;
\* expires_at < now when expires_at is set, whatever duration_days is; and
\* created_at + duration_days days < now when only duration_days is set, for
\* every duration, zero included.
C25_ExpiryByPolicy ==
    result.op = "isExpired" =>
        LET retention == artifact.governance.retention IN
        result.value =
            IF retention = NoRetention THEN FALSE
            ELSE IF retention.expires_at # NoDate
                THEN Before(retention.expires_at, 0, result.at)
            ELSE IF retention.duration_days # NoNum
                THEN Before(artifact.meta.created_at,
                            retention.duration_days.n * DayMs, result.at)
            ELSE FALSE


-----------------------------------------------------------------------------
(* storage/base.ts, file system storage: FileSystemArtifactStorage        *)

\* id.replace(/[^a-zA-Z0-9_-]/g, '_') over the identifiers the model uses
Sanitize(id) ==
    CASE id \in {"a.b", "a/b"} -> "a_b"
      [] OTHER -> id

\* FileSystemArtifactStorage.getFilePath
getFilePath(id) == "artifacts/" \o Sanitize(id) \o ".json"

\* a file that open(path, 'w') has created or truncated, and one that holds
\* the text written to it
EmptyFile == [empty |-> TRUE]
TextFile(text) == [text |-> text]

FsHas(fs, path) == \E i \in 1..Len(fs) : fs[i].path = path
FsGet(fs, path) == fs[CHOOSE i \in 1..Len(fs) : fs[i].path = path].content
FsPut(fs, path, content) ==
    IF FsHas(fs, path)
        THEN [i \in 1..Len(fs) |->
                IF fs[i].path = path THEN [path |-> path, content |-> content]
                ELSE fs[i]]
        ELSE Append(fs, [path |-> path, content |-> content])

\* what load(id) returns when fs.readFile reads the files as they are:
\* ENOENT is NOT_FOUND, a text JSON.parse refuses is UNKNOWN
fsLoad(fs, id) ==
    IF ~FsHas(fs, getFilePath(id)) THEN [ok |-> FALSE, error |-> "NOT_FOUND"]
    ELSE IF FsGet(fs, getFilePath(id)) = EmptyFile
        THEN [ok |-> FALSE, error |-> "UNKNOWN"]
    ELSE [ok |-> TRUE, value |-> JsonParse(FsGet(fs, getFilePath(id)).text)]

\* a call of the file-backed store, before its first statement
MkFsCall(kind, arg) ==
    [kind |-> kind, arg |-> arg, pc |-> "called", path |-> Absent,
     artifact |-> NoArtifact, outcome |-> Running]

FsFrame ==
    /\ UNCHANGED <<objs, store, envStore, currentAuthContext>>
    /\ UNCHANGED <<artifact, context, purpose, now, result>>

\* save: id assignment, validateArtifact, getFilePath, and the call of
\* fs.mkdir, which is awaited
FsSaveCall(r) ==
    /\ req[r].kind = "fsSave" /\ req[r].pc = "called"
    /\ \E g \in GeneratedIds :
        LET a == req[r].arg
            withId == IF ~TruthyStr(a.artifact_id) THEN [a EXCEPT !.artifact_id = g]
                      ELSE a
        IN  req' = IF validateArtifact(withId) # "ok"
                      THEN [req EXCEPT ![r].pc = "done", ![r].artifact = withId,
                                ![r].outcome = [ok |-> FALSE,
                                                error |-> validateArtifact(withId)]]
                      ELSE [req EXCEPT ![r].pc = "mkdir", ![r].artifact = withId,
                                ![r].path = getFilePath(withId.artifact_id)]
    /\ files' = files
    /\ FsFrame

\* save: fs.mkdir has resolved and fs.writeFile is called and awaited
FsSaveMkdir(r) ==
    /\ req[r].kind = "fsSave" /\ req[r].pc = "mkdir"
    /\ req' = [req EXCEPT ![r].pc = "open"]
    /\ files' = files
    /\ FsFrame

\* fs.writeFile opens the file with flag 'w': it is created or truncated
FsSaveOpen(r) ==
    /\ req[r].kind = "fsSave" /\ req[r].pc = "open"
    /\ files' = FsPut(files, req[r].path, EmptyFile)
    /\ req' = [req EXCEPT ![r].pc = "write"]
    /\ FsFrame

\* fs.writeFile writes the text and resolves; save returns the id
FsSaveWrite(r) ==
    /\ req[r].kind = "fsSave" /\ req[r].pc = "write"
    /\ files' = FsPut(files, req[r].path, TextFile(JsonStringify(req[r].artifact)))
    /\ req' = [req EXCEPT ![r].pc = "done",
                          ![r].outcome = [ok |-> TRUE, id |-> req[r].artifact.artifact_id]]
    /\ FsFrame

\* load: getFilePath and the call of fs.readFile, which is awaited
FsLoadCall(r) ==
    /\ req[r].kind = "fsLoad" /\ req[r].pc = "called"
    /\ req' = [req EXCEPT ![r].pc = "read", ![r].path = getFilePath(req[r].arg)]
    /\ files' = files
    /\ FsFrame

\* load: fs.readFile settles, and the text is parsed
FsLoadRead(r) ==
    /\ req[r].kind = "fsLoad" /\ req[r].pc = "read"
    /\ req' = [req EXCEPT ![r].pc = "done", ![r].outcome = fsLoad(files, req[r].arg)]
    /\ files' = files
    /\ FsFrame

-----------------------------------------------------------------------------
(* SpecFileRace: a save and a load of the file-backed store in flight    *)
(* together                                                              *)

RaceArtifact(id, data) ==
    [MkArtifact(id, MkMeta(IsoDate(0), "private", "u1", Absent),
                MkGovernance("allowed", NoRetention))
        EXCEPT !.content.data = data]

\* the artifact stored under a1 before the calls, if any
RaceStored == RaceArtifact("a1", "d0")

RaceSaves == {RaceArtifact(i, d) : i \in {"a1", "a2", Absent}, d \in {"d0", "d1"}}

InitFileRace ==
    /\ GovIdle
    /\ now = 0
    /\ result = NoResult
    /\ MemEmpty
    /\ envStore = <<>>
    /\ currentAuthContext = NoContext
    /\ files \in {<<>>, <<[path |-> getFilePath("a1"),
                          content |-> TextFile(JsonStringify(RaceStored))]>>}
    /\ \E a \in RaceSaves, id \in {"a1", "a2"} :
        req = <<MkFsCall("fsSave", a), MkFsCall("fsLoad", id)>>

NextFileRace ==
    \/ \E r \in DOMAIN req : FsSaveCall(r)
    \/ \E r \in DOMAIN req : FsSaveMkdir(r)
    \/ \E r \in DOMAIN req : FsSaveOpen(r)
    \/ \E r \in DOMAIN req : FsSaveWrite(r)
    \/ \E r \in DOMAIN req : FsLoadCall(r)
    \/ \E r \in DOMAIN req : FsLoadRead(r)

SpecFileRace == InitFileRace /\ [][NextFileRace]_vars

\* C26: a save is atomic for the record it touches: a load of id X in flight
\* together with a save of X returns the whole entity stored before or the
\* whole entity being saved, or NOT_FOUND, and never a partial record or an
\* UNKNOWN failure.
C26_LoadSeesWholeRecord ==
    \A r \in DOMAIN req : (req[r].kind = "fsLoad" /\ req[r].pc = "done") =>
        LET got == req[r].outcome IN
        IF got.ok
            THEN got.value \in {JsonClone(RaceStored)}
                    \cup {JsonClone(req[s].artifact) :
                            s \in {t \in DOMAIN req : /\ req[t].kind = "fsSave"
                                                      /\ req[t].artifact # NoArtifact}}
            ELSE got.error = "NOT_FOUND"


-----------------------------------------------------------------------------
(* C27: an artifact without meta.visibility in checkVisibility *)

\* the same artifact with visibility = private
AsPrivate(a) == [a EXCEPT !.meta.visibility = "private"]

\* C27: checkVisibility answers for an artifact whose meta.visibility is
\* absent exactly as it answers for the same artifact with visibility =
\* private: the owner is allowed, every other identity and the absent
\* identity are denied.
C27_AbsentVisibilityIsPrivate ==
    (result.op = "checkVisibility" /\ artifact.meta.visibility = Absent) =>
        (result.value <=> checkVisibility(AsPrivate(artifact), context))


-----------------------------------------------------------------------------
(* Specification SpecSealOrder: one seal_artifact call, with the placeholder
   signing capability, one that rejects, and ones that resolve to a given
   envelope *)

SealOrderArtifact ==
    MkArtifact("a1", MkMeta(IsoDate(0), "public", "u1", Absent),
               MkGovernance("allowed", NoRetention))

\* an envelope validateEnvelope accepts, and one without a signature
SealOrderEnvelopes ==
    {[version |-> "1.0", artifact |-> SealOrderArtifact,
      signature |-> MkSignature("sig", "did:key:s1"), sealed_at |-> IsoDate(0)],
     [version |-> "1.0", artifact |-> SealOrderArtifact,
      signature |-> NoEnvelopePart, sealed_at |-> IsoDate(0)]}

SealFns == {DefaultSealFn, FailingSealFn} \cup {CustomSealFn(e) : e \in SealOrderEnvelopes}

SealOrderArgs ==
    {[MkSealArgs(a, key, did, Absent, save) EXCEPT !.sealFn = f] :
        a \in SealArtifacts,
        key \in {<<"0", "1", "0", "2">>, <<"0", "g">>},
        did \in {"did:key:s1", "invalid-did"},
        save \in BOOLEAN,
        f \in SealFns}

InitSealOrder ==
    /\ GovIdle
    /\ MemEmpty
    /\ now \in Times
    /\ result = NoResult
    /\ currentAuthContext = NoContext /\ files = <<>>
    /\ envStore = <<>>
    /\ \E args \in SealOrderArgs :
        req = <<MkRequest("seal", Uri("", ""), args, NoContext)>>

NextSealOrder ==
    \/ SealAuthResume(1)
    \/ SealResume(1)

SpecSealOrder == InitSealOrder /\ [][NextSealOrder]_vars

\* the steps of seal in the order of the handler, and the error of each
SealSteps == <<"input", "governance", "export", "did", "key", "sign", "save">>
SealStepError ==
    <<"INVALID_INPUT", "GOVERNANCE_VIOLATION", "GOVERNANCE_VIOLATION", "INVALID_INPUT",
      "INVALID_KEY", "SIGNING_FAILED", "STORAGE_FAILED">>

\* the steps whose precondition the arguments violate
ViolatedSteps(args) ==
    LET a == args.artifact
        present == a # NoArtifact
        governed == present /\ a.governance # NoGovernance
    IN  {k \in 1..Len(SealSteps) :
            \/ k = 1 /\ (~present \/ a.artifact_id \in {"", Absent})
            \/ k = 2 /\ present
                     /\ (~governed \/ a.governance.exportability \notin Exportabilities)
            \/ k = 3 /\ governed /\ a.governance.exportability # "allowed"
            \/ k = 4 /\ args.did \notin DidStrings
            \/ k = 5 /\ Malformed(args.privateKey)
            \/ k = 6 /\ args.sealFn = FailingSealFn
            \/ k = 7 /\ args.save /\ args.sealFn \notin {DefaultSealFn, FailingSealFn}
                     /\ args.sealFn.envelope.signature = NoEnvelopePart}

\* C28: seal fails with the error of the earliest step whose precondition is
\* violated, in the order input, governance validation, canExport, signer
\* id, key decoding, signing, persist, however many later preconditions are
\* violated as well, and no step after the failing one has run; a call that
\* violates none succeeds after running every step (persist only when save
\* is set).
C28_FailsAtEarliestStep ==
    \A r \in DOMAIN req :
        (req[r].kind = "seal" /\ req[r].pc = "done") =>
            LET violated == ViolatedSteps(req[r].args) IN
            IF violated = {}
                THEN /\ req[r].outcome.ok
                     /\ req[r].trace = IF req[r].args.save THEN SealSteps
                                       ELSE SubSeq(SealSteps, 1, 6)
                ELSE /\ ~req[r].outcome.ok
                     /\ req[r].outcome.error = SealStepError[Min(violated)]
                     /\ req[r].trace = SubSeq(SealSteps, 1, Min(violated))

\* a restricted artifact sent with an unusable signer id, a malformed key and
\* a rejecting signing capability was refused at the export check
C28_Witness ==
    \E r \in DOMAIN req :
        /\ req[r].kind = "seal" /\ req[r].pc = "done"
        /\ ViolatedSteps(req[r].args) = {3, 4, 5, 6}
        /\ req[r].outcome.error = "GOVERNANCE_VIOLATION"
        /\ req[r].trace = <<"input", "governance", "export">>


-----------------------------------------------------------------------------
(* Specification SpecFileKeys: saves and loads of the file-backed store made
   one after the other, each awaited before the next is made *)

MaxCalls == 3

KeyIds == {"a.b", "a_b", "a1"}
KeySaves == {RaceArtifact(i, d) : i \in KeyIds \cup {Absent}, d \in {"d0", "d1"}}

\* the caller makes its next call once the one before has settled
FsSubmit ==
    /\ Len(req) < MaxCalls
    /\ \A r \in DOMAIN req : req[r].pc = "done"
    /\ \/ \E a \in KeySaves : req' = Append(req, MkFsCall("fsSave", a))
       \/ \E id \in KeyIds : req' = Append(req, MkFsCall("fsLoad", id))
    /\ files' = files
    /\ FsFrame

InitFileKeys ==
    /\ GovIdle
    /\ now = 0
    /\ result = NoResult
    /\ MemEmpty
    /\ envStore = <<>>
    /\ currentAuthContext = NoContext
    /\ files = <<>>
    /\ req = <<>>

NextFileKeys ==
    \/ FsSubmit
    \/ \E r \in DOMAIN req : FsSaveCall(r)
    \/ \E r \in DOMAIN req : FsSaveMkdir(r)
    \/ \E r \in DOMAIN req : FsSaveOpen(r)
    \/ \E r \in DOMAIN req : FsSaveWrite(r)
    \/ \E r \in DOMAIN req : FsLoadCall(r)
    \/ \E r \in DOMAIN req : FsLoadRead(r)

SpecFileKeys == InitFileKeys /\ [][NextFileKeys]_vars

\* the calls of kind that have returned successfully
Returned(calls, kind) ==
    {r \in DOMAIN calls : /\ calls[r].kind = kind /\ calls[r].pc = "done"
                          /\ calls[r].outcome.ok}

\* C29: two distinct identifiers never share a storage key. A step of a save
\* under id A leaves what load returns for every other id B as it was, and a
\* load of an id that an earlier save returned yields an artifact whose
\* artifact_id is that id.
C29_DistinctIdsDistinctKeys ==
    [][/\ \A s \in DOMAIN req :
            (req[s].kind = "fsSave" /\ req[s].pc \in {"open", "write"}) =>
                \A B \in KeyIds \ {req[s].artifact.artifact_id} :
                    fsLoad(files', B) = fsLoad(files, B)
       /\ \A s \in Returned(req', "fsSave") : \A l \in DOMAIN req' :
            (/\ l > s
             /\ req'[l].kind = "fsLoad" /\ req'[l].pc = "done"
             /\ req'[l].arg = req'[s].outcome.id)
                => /\ req'[l].outcome.ok
                   /\ req'[l].outcome.value.artifact_id = req'[l].arg
      ]_vars


-----------------------------------------------------------------------------
(* Specification SpecSealMany: seal_artifact calls with the placeholder
   signing capability against an envelope store that starts empty; calls
   arrive at any time and the clock advances *)

MaxSeals == 2

SealManyArgs ==
    {MkSealArgs(SealOrderArtifact, key, did, Absent, save) :
        key \in {<<"0", "1", "0", "2">>, <<"0", "g">>},
        did \in {"did:key:s1", "invalid-did"},
        save \in BOOLEAN}
    \cup {MkSealArgs(a, <<"0", "1", "0", "2">>, "did:key:s1", Absent, TRUE) :
            a \in {NoArtifact,
                   [SealOrderArtifact EXCEPT !.artifact_id = ""],
                   [SealOrderArtifact EXCEPT !.governance.exportability = "restricted"],
                   [SealOrderArtifact EXCEPT !.artifact_id = "a2"]}}

\* the transport hands a seal_artifact request to the CallTool handler
SealSubmit ==
    /\ Len(req) < MaxSeals
    /\ \E args \in SealManyArgs :
        req' = Append(req, MkRequest("seal", Uri("", ""), args, NoContext))
    /\ UNCHANGED <<objs, store, envStore, currentAuthContext>>
    /\ SrvFrame

InitSealMany ==
    /\ GovIdle
    /\ MemEmpty
    /\ now = 0
    /\ result = NoResult
    /\ currentAuthContext = NoContext /\ files = <<>>
    /\ envStore = <<>>
    /\ req = <<>>

NextSealMany ==
    \/ SealSubmit
    \/ \E r \in DOMAIN req : SealAuthResume(r)
    \/ \E r \in DOMAIN req : SealResume(r)
    \/ Tick

SpecSealMany == InitSealMany /\ [][NextSealMany]_vars

\* C30: with the placeholder signing capability and an envelope store that
\* starts empty, every stored envelope wraps an artifact with a non-empty id
\* and exportability = allowed and carries a signer id beginning with
\* "did:"; the step that ends a seal call in failure, or ends a call made
\* with save = false, leaves the envelope store as it was.
C30_StoredEnvelopesAreSealable ==
    [][/\ \A i \in 1..Len(envStore') :
            LET e == envStore'[i].val IN
            /\ e.artifact.artifact_id \notin {"", Absent}
            /\ e.artifact.governance.exportability = "allowed"
            /\ e.signature.signer_did \in DidStrings
       /\ \A r \in DOMAIN req :
            (/\ req[r].kind = "seal" /\ req[r].pc # "done" /\ req'[r].pc = "done"
             /\ (~req'[r].outcome.ok \/ ~req[r].args.save))
                => envStore' = envStore
      ]_vars

\* the store holds an envelope saved by one call, and another call made with
\* save = true has failed
C30_Witness ==
    /\ Len(envStore) >= 1
    /\ \E r \in DOMAIN req :
        /\ req[r].pc = "done" /\ req[r].args.save /\ ~req[r].outcome.ok

====
